---- MODULE Spec2Model ----
(***************************************************************************)
(* A model of AdvancedFileOperations (src/advanced_operations.py) and the  *)
(* helpers of src/utils.py and src/config.py it relies on.                 *)
(*                                                                         *)
(* Text.  A file name is a sequence of tokens; a token is a run of         *)
(* characters that no operation of the program splits.  The characters the *)
(* program does look at ("." for stem and suffix, "_" and the digits of a  *)
(* collision counter, the separators of a path, the characters             *)
(* clean_filename replaces or strips) are always tokens of their own, so   *)
(* stem, suffix, startswith, replace and strip are computed on the token   *)
(* sequence exactly as the code computes them on the characters.           *)
(* The Chinese literals of the source are written in pinyin; each          *)
(* definition names the literal it stands for.                             *)
(*                                                                         *)
(* Filesystem.  fs maps every existing path (a sequence of names below     *)
(* the filesystem root) to its node: a directory, or a file with the       *)
(* identity of its content.  Size and modification time belong to the      *)
(* content and move with it.                                               *)
(***************************************************************************)
EXTENDS Naturals, Integers, Sequences, FiniteSets, TLC

VARIABLES
    posix,              \* os.name != 'nt': decides the separator, abspath and os.rename onto an existing file
    fs,                 \* the filesystem: path -> node
    operation_history,  \* AdvancedFileOperations.operation_history
    analysis_cache,     \* FileAnalyzer.analysis_cache: path -> hash
    call                \* the most recent step: the call, its arguments, its result, fs and history before it

vars == <<posix, fs, operation_history, analysis_cache, call>>

----------------------------------------------------------------------------
(* Bounds of the model *)

\* at most this many files lie at the top level of the working directory initially
MaxFiles == 3
\* calls that append to operation_history are explored while it is shorter than this
MaxHistory == 2
\* get_operation_history is called with limit in 0 .. MaxLimit
MaxLimit == 2

----------------------------------------------------------------------------
(* Names: pathlib's stem and suffix *)

Max(a, b) == IF a >= b THEN a ELSE b
Min(a, b) == IF a <= b THEN a ELSE b

\* str.rfind("."), 1-based; 0 when there is no dot
rfind_dot(name) ==
    LET dots == {i \in 1..Len(name) : name[i] = "."}
    IN  IF dots = {} THEN 0 ELSE CHOOSE i \in dots : \A j \in dots : j <= i

\* PurePath.suffix: name[i:] when 0 < i < len(name) - 1 (0-based i), else ""
suffix(name) ==
    LET i == rfind_dot(name)
    IN  IF 1 < i /\ i < Len(name) THEN SubSeq(name, i, Len(name)) ELSE <<>>

\* PurePath.stem: name[:i] under the same condition, else the whole name
stem(name) ==
    LET i == rfind_dot(name)
    IN  IF 1 < i /\ i < Len(name) THEN SubSeq(name, 1, i - 1) ELSE name

\* f"{stem}_{counter}{suffix}"
numbered(original, counter) ==
    stem(original) \o <<"_", ToString(counter)>> \o suffix(original)

\* str.lower() and str.upper() on the extension tokens that occur
lower(tok) == CASE tok = "TXT" -> "txt" [] tok = "PDF" -> "pdf" [] tok = "PY" -> "py" [] OTHER -> tok
upper(tok) == CASE tok = "txt" -> "TXT" [] tok = "pdf" -> "PDF" [] tok = "py" -> "PY" [] OTHER -> tok

----------------------------------------------------------------------------
(* Paths *)

Parent(path) == SubSeq(path, 1, Len(path) - 1)
Child(dir, name) == Append(dir, name)
BaseName(path) == path[Len(path)]
IsUnder(path, dir) ==
    Len(path) > Len(dir) /\ SubSeq(path, 1, Len(dir)) = dir
IsChildOf(path, dir) ==
    Len(path) = Len(dir) + 1 /\ SubSeq(path, 1, Len(dir)) = dir

StartsWith(s, p) == Len(s) >= Len(p) /\ SubSeq(s, 1, Len(p)) = p

\* os.path.abspath of an absolute path, as the string's tokens: the drive or
\* root, then the names joined by os.sep
RECURSIVE abspath_from(_, _, _)
abspath_from(sep, path, i) ==
    IF i > Len(path) THEN <<>>
    ELSE (IF i = 1 THEN <<>> ELSE <<sep>>) \o path[i] \o abspath_from(sep, path, i + 1)

abspath(path) ==
    IF posix THEN <<"/">> \o abspath_from("/", path, 1)
    ELSE <<"C:", "\\">> \o abspath_from("\\", path, 1)

\* Config.PROTECTED_PATHS
PROTECTED_PATHS == <<
    <<"/", "System">>,
    <<"/", "Windows">>,
    <<"/", "Program Files">>,
    <<"/", "Program Files", " (x86)">>,
    <<"C:", "\\", "Windows">>,
    <<"C:", "\\", "Program Files">>,
    <<"C:", "\\", "Program Files", " (x86)">> >>

\* utils.is_safe_path
is_safe_path(path) ==
    \A k \in 1..Len(PROTECTED_PATHS) : ~StartsWith(abspath(path), PROTECTED_PATHS[k])

----------------------------------------------------------------------------
(* The filesystem *)

Dir == [kind |-> "dir"]
File(c) == [kind |-> "file", content |-> c]

exists(f, path) == path \in DOMAIN f
is_dir(f, path) == exists(f, path) /\ f[path].kind = "dir"
is_file(f, path) == exists(f, path) /\ f[path].kind = "file"

\* Path.iterdir
iterdir(f, dir) == {p \in DOMAIN f : IsChildOf(p, dir)}

\* os.rename(src, dst) where dst does not exist, or replaces an existing file
renamed(f, src, dst) ==
    [p \in (DOMAIN f \ {src}) \cup {dst} |-> IF p = dst THEN f[src] ELSE f[p]]

\* Path.mkdir(exist_ok=True), once it is known not to raise
made_dir(f, dir) ==
    IF exists(f, dir) THEN f
    ELSE [p \in DOMAIN f \cup {dir} |-> IF p = dir THEN Dir ELSE f[p]]

\* Path.rmdir of an empty directory
removed(f, path) == [p \in DOMAIN f \ {path} |-> f[p]]

\* the contents of files the operating system refuses to rename or move (a
\* file another process holds open on Windows, an immutable file on Linux)
Immovable == {4}

\* shutil.move / Path.rename of the file raises PermissionError
move_raises(f, src) == f[src].content \in Immovable

\* all orders in which a directory listing can deliver a set of paths
RECURSIVE Orders(_)
Orders(S) ==
    IF S = {} THEN { <<>> }
    ELSE UNION { { <<x>> \o s : s \in Orders(S \ {x}) } : x \in S }

----------------------------------------------------------------------------
(* File metadata: os.stat of a file, decided by its content *)

OneMiB == 1048576       \* 1024**2
HundredMiB == 104857600 \* 100 * 1024**2

\* st_size
st_size(c) ==
    CASE c = 1 -> 10
      [] c = 2 -> OneMiB
      [] c = 3 -> HundredMiB
      [] c = 5 -> 0
      [] OTHER -> 10

\* datetime.fromtimestamp(st_mtime), as the strftime fields the program prints
mtime(c) ==
    IF c \in {2, 5}
    THEN [Y |-> "2023", m |-> "12", d |-> "31", HMS |-> "235959"]
    ELSE [Y |-> "2024", m |-> "01", d |-> "05", HMS |-> "101500"]

----------------------------------------------------------------------------
(* utils.py *)

\* Config.FILE_TYPE_MAPPING, in its declared order.  tupian = 图片, shipin = 视频,
\* wendang = 文档, biaoge = 表格, yanshi = 演示, yinpin = 音频, daima = 代码,
\* yasuo = 压缩, tuxiang = 图像
FILE_TYPE_MAPPING == <<
    [category |-> "tupian",   extensions |-> {"jpg", "jpeg", "png", "gif", "bmp", "svg", "webp", "tiff"}],
    [category |-> "shipin",   extensions |-> {"mp4", "avi", "mkv", "mov", "wmv", "flv", "webm", "m4v"}],
    [category |-> "wendang",  extensions |-> {"doc", "docx", "pdf", "txt", "rtf", "odt", "pages"}],
    [category |-> "biaoge",   extensions |-> {"xls", "xlsx", "csv", "ods", "numbers"}],
    [category |-> "yanshi",   extensions |-> {"ppt", "pptx", "odp", "key"}],
    [category |-> "yinpin",   extensions |-> {"mp3", "wav", "flac", "aac", "ogg", "wma", "m4a"}],
    [category |-> "daima",    extensions |-> {"py", "js", "html", "css", "java", "cpp", "c", "php", "rb", "go"}],
    [category |-> "yasuo",    extensions |-> {"zip", "rar", "7z", "tar", "gz", "bz2"}],
    [category |-> "tuxiang",  extensions |-> {"jpg", "jpeg", "png", "gif", "bmp", "svg", "webp", "tiff"}],
    [category |-> "picture",  extensions |-> {"jpg", "jpeg", "png", "gif", "bmp", "svg", "webp", "tiff"}],
    [category |-> "video",    extensions |-> {"mp4", "avi", "mkv", "mov", "wmv", "flv", "webm", "m4v"}],
    [category |-> "document", extensions |-> {"doc", "docx", "pdf", "txt", "rtf", "odt", "pages"}],
    [category |-> "audio",    extensions |-> {"mp3", "wav", "flac", "aac", "ogg", "wma", "m4a"}],
    [category |-> "code",     extensions |-> {"py", "js", "html", "css", "java", "cpp", "c", "php", "rb", "go"}],
    [category |-> "archive",  extensions |-> {"zip", "rar", "7z", "tar", "gz", "bz2"}] >>

\* the catch-all category "其他"
qita == "qita"

\* str.lstrip('.')
RECURSIVE lstrip_dot(_)
lstrip_dot(s) == IF s # <<>> /\ s[1] = "." THEN lstrip_dot(Tail(s)) ELSE s

\* utils.get_file_type_category: the first category of the table that lists
\* the lower-cased extension
get_file_type_category(name) ==
    LET sfx == suffix(name)
        extension == lstrip_dot([i \in 1..Len(sfx) |-> lower(sfx[i])])
        hits == {k \in 1..Len(FILE_TYPE_MAPPING) :
                    Len(extension) = 1 /\ extension[1] \in FILE_TYPE_MAPPING[k].extensions}
    IN  IF hits = {} THEN qita
        ELSE FILE_TYPE_MAPPING[CHOOSE k \in hits : \A j \in hits : k <= j].category

\* the characters of illegal_chars = r'[<>:"/\\|?*]'
IllegalChars == {"<", ">", ":", "\"", "/", "\\", "|", "?", "*"}

\* str.strip('. ')
RECURSIVE strip_dot_space(_)
strip_dot_space(s) ==
    IF s = <<>> THEN s
    ELSE IF s[1] \in {".", " "} THEN strip_dot_space(Tail(s))
    ELSE IF s[Len(s)] \in {".", " "} THEN strip_dot_space(SubSeq(s, 1, Len(s) - 1))
    ELSE s

\* utils.clean_filename
clean_filename(filename) ==
    LET cleaned == strip_dot_space(
            [i \in 1..Len(filename) |-> IF filename[i] \in IllegalChars THEN "_" ELSE filename[i]])
    IN  IF cleaned = <<>> THEN <<"unnamed", "_", "file">> ELSE cleaned

----------------------------------------------------------------------------
(* Grouping: a defaultdict(list) filled in listing order *)

\* the keys of a dict in insertion order: each key once, at its first position
RECURSIVE first_seen(_)
first_seen(ks) ==
    IF ks = <<>> THEN <<>>
    ELSE LET r == first_seen(SubSeq(ks, 1, Len(ks) - 1))
             k == ks[Len(ks)]
         IN  IF \E i \in 1..Len(r) : r[i] = k THEN r ELSE Append(r, k)

\* the list a key holds: the files with that key, in listing order
RECURSIVE members(_, _, _, _)
members(files, ks, k, i) ==
    IF i > Len(files) THEN <<>>
    ELSE (IF ks[i] = k THEN <<files[i]>> ELSE <<>>) \o members(files, ks, k, i + 1)

----------------------------------------------------------------------------
(* Moving the files of one group into its directory.  The four strategies  *)
(* share this text line for line (lines 91-112, 134-154, 187-207, 227-247).*)
(* st is the pass so far: [fs, organized_files, created_directories,       *)
(* errors].                                                                *)

\* a collision loop that gives up after the first numbered name
first_numbered_dest(f, dir, original, counter, dest_path) ==
    IF exists(f, dest_path) THEN Child(dir, numbered(original, counter)) ELSE dest_path

\* "while dest_path.exists(): dest_path = dir / f'{stem}_{counter}{suffix}'; counter += 1"
RECURSIVE free_dest(_, _, _, _, _)
free_dest(f, dir, original, counter, dest_path) ==
    IF exists(f, dest_path)
    THEN free_dest(f, dir, original, counter + 1, Child(dir, numbered(original, counter)))
    ELSE dest_path

\* the destination of one file: the loop started at dir / file_path.name
resolve_dest(f, dir, original) == free_dest(f, dir, original, 1, Child(dir, original))

\* a loop that copies each file to its destination and leaves the source
RECURSIVE copy_files(_, _, _, _, _)
copy_files(st, dir, file_list, i, err) ==
    IF i > Len(file_list) THEN st
    ELSE LET file_path == file_list[i]
             dest_path == resolve_dest(st.fs, dir, BaseName(file_path))
         IN  IF move_raises(st.fs, file_path)
             THEN [st EXCEPT !.errors = Append(@, err)]
             ELSE copy_files([st EXCEPT !.fs = (dest_path :> @[file_path]) @@ @,
                                        !.organized_files = @ + 1],
                             dir, file_list, i + 1, err)

\* "for file_path in file_list": shutil.move(src, dest) to a destination the
\* loop found not to exist.  A move that raises leaves the for loop for the
\* except clause of the group, which records err; the files after it in the
\* group are not reached.
RECURSIVE move_files(_, _, _, _, _)
move_files(st, dir, file_list, i, err) ==
    IF i > Len(file_list) THEN st
    ELSE LET file_path == file_list[i]
             dest_path == resolve_dest(st.fs, dir, BaseName(file_path))
         IN  IF move_raises(st.fs, file_path)
             THEN [st EXCEPT !.errors = Append(@, err)]
             ELSE move_files([st EXCEPT !.fs = renamed(@, file_path, dest_path),
                                        !.organized_files = @ + 1],
                             dir, file_list, i + 1, err)

\* one iteration of "for key, file_list in groups.items()": mkdir(exist_ok=True)
\* raises FileExistsError when the name is taken by a file, and the group's
\* except clause records it; otherwise the directory is reported and the files move.
\* dedup: _organize_by_type appends the directory only if not yet listed.
organize_group(st, dir, file_list, err, dedup) ==
    IF is_file(st.fs, dir)
    THEN [st EXCEPT !.errors = Append(@, err)]
    ELSE move_files(
            [st EXCEPT !.fs = made_dir(@, dir),
                       !.created_directories =
                            IF dedup /\ \E k \in 1..Len(@) : @[k] = dir THEN @ ELSE Append(@, dir)],
            dir, file_list, 1, err)

\* results = {"organized_files": 0, "created_directories": [], "errors": []}
pass_start(f) == [fs |-> f, organized_files |-> 0, created_directories |-> <<>>, errors |-> <<>>]

----------------------------------------------------------------------------
(* The four strategies.  files is the listing, ks[i] the key of files[i].  *)

\* the group directory's name under each strategy
\* type: base_path / file_type
type_dir_name(file_type) == <<file_type>>
\* date: mtime.strftime("%Y年%m月")
date_key(c) == mtime(c).Y \o "nian" \o mtime(c).m \o "yue"
\* categories whose upper ends are included: a file of 1 MiB is a small one
size_category_inclusive(file_size) ==
    IF 0 <= file_size /\ file_size <= OneMiB THEN <<"xiaowenjian", "_", "xiaoyu1MB">>
    ELSE IF OneMiB < file_size /\ file_size <= HundredMiB THEN <<"zhongdengwenjian", "_", "1MBdao100MB">>
    ELSE <<"dawenjian", "_", "dayu100MB">>
\* size: 小文件_小于1MB, 中等文件_1MB到100MB, 大文件_大于100MB
size_category(file_size) ==
    IF 0 <= file_size /\ file_size < OneMiB THEN <<"xiaowenjian", "_", "xiaoyu1MB">>
    ELSE IF OneMiB <= file_size /\ file_size < HundredMiB THEN <<"zhongdengwenjian", "_", "1MBdao100MB">>
    ELSE <<"dawenjian", "_", "dayu100MB">>
\* extension: ext = file_path.suffix.lower() or "无扩展名"
ext_key(name) ==
    LET sfx == suffix(name)
    IN  IF sfx = <<>> THEN <<"wukuozhanming">> ELSE [i \in 1..Len(sfx) |-> lower(sfx[i])]
\* clean_filename(ext.replace(".", "").upper() + "文件"); the extension and
\* "文件" run together into one token
ext_dir_name(ext) ==
    LET bare == SelectSeq(ext, LAMBDA t : t # ".")
        up == [i \in 1..Len(bare) |-> upper(bare[i])]
    IN  clean_filename(
            IF up = <<>> THEN <<"wenjian">>
            ELSE SubSeq(up, 1, Len(up) - 1) \o <<up[Len(up)] \o "wenjian">>)

\* a pass that groups the unclassified files like any others
skips_nothing(file_type) == FALSE

\* 'if file_type == "其他": continue'
skipped(file_type) == file_type = qita

RECURSIVE by_type_groups(_, _, _, _, _, _)
by_type_groups(st, base_path, files, ks, keys, g) ==
    IF g > Len(keys) THEN st
    ELSE IF skipped(keys[g])
    THEN by_type_groups(st, base_path, files, ks, keys, g + 1)
    ELSE by_type_groups(
            organize_group(st, Child(base_path, type_dir_name(keys[g])),
                           members(files, ks, keys[g], 1), <<"organize_type_error", keys[g]>>, TRUE),
            base_path, files, ks, keys, g + 1)

\* AdvancedFileOperations._organize_by_type
organize_by_type(f, files, base_path) ==
    LET ks == [i \in 1..Len(files) |-> get_file_type_category(BaseName(files[i]))]
    IN  by_type_groups(pass_start(f), base_path, files, ks, first_seen(ks), 1)

\* "for key, file_list in groups.items()" of the date, size and extension
\* strategies; dirs[g] is the directory of keys[g]
RECURSIVE by_key_groups(_, _, _, _, _, _, _)
by_key_groups(st, files, ks, keys, dirs, g, err) ==
    IF g > Len(keys) THEN st
    ELSE by_key_groups(
            organize_group(st, dirs[g], members(files, ks, keys[g], 1), <<err, keys[g]>>, FALSE),
            files, ks, keys, dirs, g + 1, err)

\* AdvancedFileOperations._organize_by_date
organize_by_date(f, files, base_path) ==
    LET ks == [i \in 1..Len(files) |-> date_key(f[files[i]].content)]
        keys == first_seen(ks)
    IN  by_key_groups(pass_start(f), files, ks, keys,
                      [g \in 1..Len(keys) |-> Child(base_path, <<keys[g]>>)], 1,
                      "organize_date_error")

\* AdvancedFileOperations._organize_by_size
organize_by_size(f, files, base_path) ==
    LET ks == [i \in 1..Len(files) |-> size_category(st_size(f[files[i]].content))]
        keys == first_seen(ks)
    IN  by_key_groups(pass_start(f), files, ks, keys,
                      [g \in 1..Len(keys) |-> Child(base_path, keys[g])], 1,
                      "organize_size_error")

\* AdvancedFileOperations._organize_by_extension
organize_by_extension(f, files, base_path) ==
    LET ks == [i \in 1..Len(files) |-> ext_key(BaseName(files[i]))]
        keys == first_seen(ks)
    IN  by_key_groups(pass_start(f), files, ks, keys,
                      [g \in 1..Len(keys) |-> Child(base_path, ext_dir_name(keys[g]))], 1,
                      "organize_extension_error")

----------------------------------------------------------------------------
(* The public operations.  Each returns [fs, history, result]: the         *)
(* filesystem and operation_history it leaves and the dict it returns.     *)
(* The "timestamp" of a history entry is left out: nothing reads it.       *)

\* "目录不存在或不是有效目录"
ErrNotADirectory == "mulu bucunzai huo bushi youxiao mulu"
\* "不安全的路径"
ErrUnsafePath == "bu anquan de lujing"
\* "不支持的整理类型: "
ErrUnsupportedType == "bu zhichi de zhengli leixing: "
\* "没有可撤销的操作"
ErrNothingToUndo == "meiyou ke chexiao de caozuo"
\* "无法撤销删除空目录操作"
ErrUndoCleanup == "wufa chexiao shanchu kongmulu caozuo"
\* "智能整理操作的撤销功能尚未实现，建议手动恢复"
ErrUndoOrganize == "zhineng zhengli caozuo de chexiao gongneng shangwei shixian, jianyi shoudong huifu"
\* "不支持撤销操作类型: "
ErrUndoUnsupported == "bu zhichi chexiao caozuo leixing: "

Failure(f, hist, error) ==
    [fs |-> f, history |-> hist, result |-> [success |-> FALSE, error |-> error]]

\* files = [f for f in path.iterdir() if f.is_file()]
top_files(f, path) == {p \in iterdir(f, path) : is_file(f, p)}

valid_always(f, path) == ""

\* the two guards every operation starts with; "" when the path passes
validate_directory(f, path) ==
    IF ~exists(f, path) \/ ~is_dir(f, path) THEN ErrNotADirectory
    ELSE IF ~is_safe_path(path) THEN ErrUnsafePath
    ELSE ""

\* AdvancedFileOperations.smart_organize_directory
smart_organize_directory(f, hist, path, organization_type, files) ==
    IF validate_directory(f, path) # "" THEN Failure(f, hist, validate_directory(f, path))
    ELSE IF organization_type \notin {"type", "date", "size", "extension"}
    THEN Failure(f, hist, ErrUnsupportedType \o organization_type)
    ELSE LET st == CASE organization_type = "type" -> organize_by_type(f, files, path)
                     [] organization_type = "date" -> organize_by_date(f, files, path)
                     [] organization_type = "size" -> organize_by_size(f, files, path)
                     [] organization_type = "extension" -> organize_by_extension(f, files, path)
             results == [success |-> TRUE,
                         organized_files |-> st.organized_files,
                         created_directories |-> st.created_directories,
                         errors |-> st.errors,
                         organization_type |-> organization_type]
         IN  [fs |-> st.fs,
              history |-> Append(hist, [operation |-> "smart_organize", path |-> path,
                                        type |-> organization_type, result |-> results]),
              result |-> results]

----------------------------------------------------------------------------
(* Batch rename.  A pattern is a token sequence; a placeholder is a token. *)
(* The model's patterns put placeholders next to a separator token or an   *)
(* end of the pattern, and names hold no braces, so the successive         *)
(* str.replace calls amount to one substitution per placeholder.           *)

\* f"{index:02d}", f"{index:03d}"
zero_padded(index, width) ==
    IF width = 3 /\ index < 10 THEN "00" \o ToString(index)
    ELSE IF index < 10 \/ (width = 3 /\ index < 100) THEN "0" \o ToString(index)
    ELSE ToString(index)

\* the replacements dict of _apply_rename_pattern
replacement(tok, name, c, index) ==
    CASE tok = "{name}" -> stem(name)
      [] tok = "{ext}" -> suffix(name)
      [] tok = "{index}" -> <<ToString(index)>>
      [] tok = "{index:02d}" -> <<zero_padded(index, 2)>>
      [] tok = "{index:03d}" -> <<zero_padded(index, 3)>>
      [] tok = "{date}" -> <<mtime(c).Y \o mtime(c).m \o mtime(c).d>>
      [] tok = "{time}" -> <<mtime(c).HMS>>
      [] tok = "{year}" -> <<mtime(c).Y>>
      [] tok = "{month}" -> <<mtime(c).m>>
      [] tok = "{day}" -> <<mtime(c).d>>
      [] tok = "{size}" -> <<ToString(st_size(c))>>
      [] OTHER -> <<tok>>

RECURSIVE substituted(_, _, _, _, _)
substituted(pattern, name, c, index, k) ==
    IF k > Len(pattern) THEN <<>>
    ELSE replacement(pattern[k], name, c, index) \o substituted(pattern, name, c, index, k + 1)

\* AdvancedFileOperations._apply_rename_pattern
apply_rename_pattern(f, file_path, pattern, index) ==
    LET name == BaseName(file_path)
        new_name == clean_filename(substituted(pattern, name, f[file_path].content, index, 1))
    IN  IF suffix(new_name) = <<>> /\ suffix(name) # <<>>
        THEN new_name \o suffix(name)
        ELSE new_name

\* "while new_path.exists() and new_path != file_path: ..."
RECURSIVE free_new_path(_, _, _, _, _)
free_new_path(f, file_path, original, counter, new_path) ==
    IF exists(f, new_path) /\ new_path # file_path
    THEN free_new_path(f, file_path, original, counter + 1,
                       Child(Parent(file_path), numbered(original, counter)))
    ELSE new_path

\* a rename that takes the substituted name without looking for a free one
unresolved_new_path(f, file_path, new_name) == Child(Parent(file_path), new_name)

\* the name a file is given: the loop started at parent / new_name
resolve_new_path(f, file_path, new_name) ==
    free_new_path(f, file_path, new_name, 1, Child(Parent(file_path), new_name))

\* an apply mode that renames a file to its own name as well
renames_whenever_applying(preview, new_path, file_path) == ~preview

\* a preview that renames all the same
applies(preview, new_path, file_path) == new_path # file_path

\* "if not preview and new_path != file_path"
renames(preview, new_path, file_path) == ~preview /\ new_path # file_path

\* "for i, file_path in enumerate(files, 1)"; st = [fs, renamed_files, errors].
\* A rename that raises is caught inside the loop: the error is recorded, the
\* file gets no entry in renamed_files, and the loop goes on.
RECURSIVE rename_files(_, _, _, _, _)
rename_files(st, files, pattern, preview, i) ==
    IF i > Len(files) THEN st
    ELSE LET file_path == files[i]
             new_name == apply_rename_pattern(st.fs, file_path, pattern, i)
             new_path == resolve_new_path(st.fs, file_path, new_name)
             do == renames(preview, new_path, file_path)
             rename_info == [original |-> BaseName(file_path),
                             new |-> BaseName(new_path),
                             path |-> file_path,
                             status |-> IF do THEN "renamed"
                                        ELSE IF preview THEN "preview" ELSE "unchanged"]
         IN  IF do /\ move_raises(st.fs, file_path)
             THEN rename_files([st EXCEPT !.errors =
                                    Append(@, <<"rename_error", BaseName(file_path)>>)],
                               files, pattern, preview, i + 1)
             ELSE rename_files([fs |-> IF do THEN renamed(st.fs, file_path, new_path) ELSE st.fs,
                                renamed_files |-> Append(st.renamed_files, rename_info),
                                errors |-> st.errors],
                               files, pattern, preview, i + 1)

\* a rename that leaves no record
records_no_rename(preview) == FALSE

\* "if not preview:" before the history entry
records_rename(preview) == ~preview

\* AdvancedFileOperations.batch_rename_files
batch_rename_files(f, hist, path, rename_pattern, preview, files) ==
    IF validate_directory(f, path) # "" THEN Failure(f, hist, validate_directory(f, path))
    ELSE LET st == rename_files([fs |-> f, renamed_files |-> <<>>, errors |-> <<>>],
                                 files, rename_pattern, preview, 1)
             results == [success |-> TRUE,
                         preview |-> preview,
                         renamed_files |-> st.renamed_files,
                         errors |-> st.errors,
                         pattern |-> rename_pattern]
         IN  [fs |-> st.fs,
              history |-> IF records_rename(preview)
                          THEN Append(hist, [operation |-> "batch_rename", path |-> path,
                                             pattern |-> rename_pattern, result |-> results])
                          ELSE hist,
              result |-> results]

----------------------------------------------------------------------------
(* Cleanup of empty directories *)

\* the directories of path.rglob("*")
dirs_below(f, path) == {p \in DOMAIN f : IsUnder(p, path) /\ is_dir(f, p)}

\* a sort without reverse=True: the shallowest directories first
RECURSIVE ShallowestFirst(_)
ShallowestFirst(S) ==
    IF S = {} THEN { <<>> }
    ELSE LET shallowest == {p \in S : \A q \in S : Len(p) <= Len(q)}
         IN  { a \o b : a \in Orders(shallowest), b \in ShallowestFirst(S \ shallowest) }

\* sorted(..., key=lambda p: len(p.parts), reverse=True): deepest first, the
\* order among equally deep paths being the one rglob delivered
RECURSIVE DeepestFirst(_)
DeepestFirst(S) ==
    IF S = {} THEN { <<>> }
    ELSE LET deepest == {p \in S : \A q \in S : Len(q) <= Len(p)}
         IN  { a \o b : a \in Orders(deepest), b \in DeepestFirst(S \ deepest) }

\* A directory with a file somewhere below it is not empty at its turn
\* whatever the order, and the loop passes over it; the orders enumerated are
\* those of the other directories.
visit_orders(f, path) ==
    DeepestFirst({d \in dirs_below(f, path) : \A p \in DOMAIN f : IsUnder(p, d) => is_dir(f, p)})

\* "for dir_path in sorted(...)": an empty directory is removed and listed
RECURSIVE remove_empty(_, _, _)
remove_empty(st, order, i) ==
    IF i > Len(order) THEN st
    ELSE IF iterdir(st.fs, order[i]) = {}
    THEN remove_empty([fs |-> removed(st.fs, order[i]),
                       removed_directories |-> Append(st.removed_directories, order[i])],
                      order, i + 1)
    ELSE remove_empty(st, order, i + 1)

\* AdvancedFileOperations.cleanup_empty_directories
cleanup_empty_directories(f, hist, path, order) ==
    IF validate_directory(f, path) # "" THEN Failure(f, hist, validate_directory(f, path))
    ELSE LET st == remove_empty([fs |-> f, removed_directories |-> <<>>], order, 1)
             results == [success |-> TRUE,
                         removed_directories |-> st.removed_directories,
                         errors |-> <<>>]
         IN  [fs |-> st.fs,
              history |-> Append(hist, [operation |-> "cleanup_empty_directories",
                                        path |-> path, result |-> results]),
              result |-> results]

----------------------------------------------------------------------------
(* History and undo *)

\* a history that hands out its oldest entries
oldest_entries(hist, limit) ==
    IF limit > 0 THEN SubSeq(hist, 1, Min(limit, Len(hist))) ELSE hist

\* AdvancedFileOperations.get_operation_history:
\* operation_history[-limit:] if limit > 0 else operation_history
get_operation_history(hist, limit) ==
    IF limit > 0 THEN SubSeq(hist, Max(Len(hist) - limit, 0) + 1, Len(hist)) ELSE hist

\* Path.rename(target) = os.rename: whether it raises.  On Windows it raises
\* when the target exists; on POSIX a file silently replaces an existing file,
\* and only a directory in the way (or a directory moved onto a file or onto a
\* directory that is not empty) raises.
rename_raises(f, src, dst) ==
    /\ exists(f, dst)
    /\ \/ ~posix
       \/ f[src].kind # f[dst].kind
       \/ (is_dir(f, dst) /\ iterdir(f, dst) # {})

\* "for file_info in renamed_files"; st = [fs, undone_files, errors]
RECURSIVE undo_files(_, _, _)
undo_files(st, renamed_files, i) ==
    IF i > Len(renamed_files) THEN st
    ELSE LET file_info == renamed_files[i]
             current_path == Child(Parent(file_info.path), file_info.new)
             original_path == file_info.path
         IN  IF file_info.status # "renamed" \/ ~exists(st.fs, current_path)
             THEN undo_files(st, renamed_files, i + 1)
             ELSE IF rename_raises(st.fs, current_path, original_path)
             THEN undo_files([st EXCEPT !.errors = Append(@, <<"undo_rename_error", file_info.new>>)],
                             renamed_files, i + 1)
             ELSE undo_files([st EXCEPT !.fs = renamed(@, current_path, original_path),
                                        !.undone_files = Append(@, file_info.original)],
                             renamed_files, i + 1)

\* 'if results["success"] and not results["errors"]: self.operation_history.pop()'
pops(results) == results.success /\ results.errors = <<>>

\* AdvancedFileOperations._undo_batch_rename
undo_batch_rename(f, hist, operation) ==
    LET st == undo_files([fs |-> f, undone_files |-> <<>>, errors |-> <<>>],
                         operation.result.renamed_files, 1)
        results == [success |-> TRUE, undone_files |-> st.undone_files, errors |-> st.errors]
    IN  [fs |-> st.fs,
         history |-> IF pops(results) THEN SubSeq(hist, 1, Len(hist) - 1) ELSE hist,
         result |-> results]

\* an undo of an organize pass that forgets the entry while refusing
undo_smart_organize_pops(f, hist, operation) ==
    Failure(f, SubSeq(hist, 1, Len(hist) - 1), ErrUndoOrganize)

\* AdvancedFileOperations._undo_smart_organize
undo_smart_organize(f, hist, operation) == Failure(f, hist, ErrUndoOrganize)

\* an undo that looks through the history for the latest batch rename
undo_latest_rename(f, hist) ==
    LET renames_at == {k \in 1..Len(hist) : hist[k].operation = "batch_rename"}
        undone(k) == undo_batch_rename(f, SubSeq(hist, 1, k), hist[k])
        rest(k, out) == [out EXCEPT !.history = @ \o SubSeq(hist, k + 1, Len(hist))]
    IN  IF renames_at = {} THEN Failure(f, hist, ErrNothingToUndo)
        ELSE LET latest == CHOOSE k \in renames_at : \A j \in renames_at : j <= k
             IN  rest(latest, undone(latest))

\* AdvancedFileOperations.undo_last_operation
undo_last_operation(f, hist) ==
    IF hist = <<>> THEN Failure(f, hist, ErrNothingToUndo)
    ELSE LET last_operation == hist[Len(hist)]
             operation_type == last_operation.operation
         IN  IF operation_type = "cleanup_empty_directories" THEN Failure(f, hist, ErrUndoCleanup)
             ELSE IF operation_type = "batch_rename" THEN undo_batch_rename(f, hist, last_operation)
             ELSE IF operation_type = "smart_organize" THEN undo_smart_organize(f, hist, last_operation)
             ELSE Failure(f, hist, ErrUndoUnsupported \o operation_type)

----------------------------------------------------------------------------
(* The initial filesystem and the inputs *)

a_txt == <<"a", ".", "txt">>
a_py == <<"a", ".", "py">>
a_1_txt == <<"a", "_", "1", ".", "txt">>
\* a file named "文档", without extension
wendang == <<"wendang">>
b_txt == <<"b", ".", "txt">>

\* the names a file of the working directory can have initially, each with
\* the identity of its content
TopNames == {a_txt, a_py, a_1_txt, wendang, b_txt}
content_of(name) ==
    CASE name = a_txt -> 1 [] name = a_py -> 2 [] name = a_1_txt -> 3
      [] name = b_txt -> 4 [] name = wendang -> 5

\* the directory the calls work on, a protected directory of the platform
\* (/System, C:\Windows), a path that does not exist and a path that is a file
WorkDir == << <<"work">> >>
ProtectedDir == << IF posix THEN <<"System">> ELSE <<"Windows">> >>
MissingDir == << <<"missing">> >>
FilePath == << <<"README">> >>

\* what the working directory can hold below its top level initially: nothing,
\* or the group directories of earlier passes (one per strategy, each holding
\* its own a.txt) and a directory holding only an empty directory
GroupDirNames == { <<"wendang">>, <<"TXTwenjian">>, <<"2024nian01yue">>,
                   <<"xiaowenjian", "_", "xiaoyu1MB">> }
EarlierPasses ==
    [p \in {Child(WorkDir, g) : g \in GroupDirNames} |-> Dir]
    @@ [p \in {Child(Child(WorkDir, g), a_txt) : g \in GroupDirNames} |-> File(6)]
    @@ (Child(WorkDir, <<"old">>) :> Dir)
    @@ (Child(Child(WorkDir, <<"old">>), <<"inner">>) :> Dir)
Subtrees == { << >>, EarlierPasses }

InitialFs(names, subtree) ==
    (WorkDir :> Dir)
    @@ [p \in {Child(WorkDir, n) : n \in names} |-> File(content_of(BaseName(p)))]
    @@ subtree
    @@ (ProtectedDir :> Dir)
    @@ (Child(ProtectedDir, a_txt) :> File(7))
    @@ (Child(ProtectedDir, <<"empty">>) :> Dir)
    @@ (FilePath :> File(8))

\* organization_type: the four strategies and "name", which the command
\* parser can extract and the organizer does not support
Strategies == {"type", "date", "size", "extension"}
OrganizationTypes == Strategies \cup {"name"}

\* rename_pattern: "report", "{name}_1", "{name}.txt"
Patterns == { <<"report">>, <<"{name}", "_", "1">>, <<"{name}", ".", "txt">> }

\* directory_path
DirectoryPaths == {WorkDir, ProtectedDir, MissingDir, FilePath}

NoCall == [op |-> "none"]

Init ==
    /\ posix \in BOOLEAN
    /\ \E names \in SUBSET TopNames : \E subtree \in Subtrees :
         /\ Cardinality(names) <= MaxFiles
         /\ \A p \in DOMAIN subtree : Parent(p) = WorkDir => BaseName(p) \notin names
         /\ fs = InitialFs(names, subtree)
    /\ operation_history = <<>>
    /\ analysis_cache = <<>>
    /\ call = NoCall

----------------------------------------------------------------------------
(* Steps: one call of a public method each.  call records the call, what   *)
(* it returned, and the filesystem and history it started from.            *)
(*                                                                         *)
(* The behaviours explored are: up to MaxHistory calls that append to the  *)
(* history, then calls that do not: previews, calls the guards reject,     *)
(* queries of the history, and undos, any number of them.  A preview can   *)
(* be followed by the rename it previews, and a rename by the deletion,    *)
(* from outside, of a file it produced.                                    *)

Returns(op, path, arg, preview, out) ==
    /\ fs' = out.fs
    /\ operation_history' = out.history
    /\ call' = [op |-> op, path |-> path, arg |-> arg, preview |-> preview,
                result |-> out.result, fs |-> fs, history |-> operation_history]
    /\ UNCHANGED <<posix, analysis_cache>>

\* no call yet, or every call so far appended to the history
Appending ==
    \/ call.op = "none"
    \/ /\ call.op \in {"smart_organize_directory", "batch_rename_files", "cleanup_empty_directories"}
       /\ Len(operation_history) > Len(call.history)

Previewed(path, rename_pattern) ==
    /\ call.op = "batch_rename_files"
    /\ call.result.success
    /\ call.preview
    /\ call.path = path
    /\ call.arg = rename_pattern

\* On a path the guards reject, the remaining arguments are not read: one
\* value of each is tried.
SmartOrganizeDirectory ==
    /\ Appending
    /\ Len(operation_history) < MaxHistory
    /\ \E path \in DirectoryPaths :
       \E organization_type \in (IF path = WorkDir THEN OrganizationTypes ELSE {"type"}) :
       \E files \in Orders(top_files(fs, path)) :
          Returns("smart_organize_directory", path, organization_type, FALSE,
                  smart_organize_directory(fs, operation_history, path, organization_type, files))

BatchRenameFiles ==
    /\ Len(operation_history) < MaxHistory
    /\ \E path \in DirectoryPaths :
       \E rename_pattern \in (IF path = WorkDir THEN Patterns ELSE { <<"report">> }) :
       \E preview \in BOOLEAN :
       \E files \in Orders(top_files(fs, path)) :
          /\ Appending \/ (~preview /\ Previewed(path, rename_pattern))
          /\ Returns("batch_rename_files", path, rename_pattern, preview,
                     batch_rename_files(fs, operation_history, path, rename_pattern, preview, files))

CleanupEmptyDirectories ==
    /\ Appending
    /\ Len(operation_history) < MaxHistory
    /\ \E path \in DirectoryPaths : \E order \in visit_orders(fs, path) :
          Returns("cleanup_empty_directories", path, <<>>, FALSE,
                  cleanup_empty_directories(fs, operation_history, path, order))

GetOperationHistory ==
    /\ Appending
    /\ call.op # "none"
    /\ \E limit \in 0..MaxLimit :
          Returns("get_operation_history", <<>>, limit, FALSE,
                  [fs |-> fs, history |-> operation_history,
                   result |-> get_operation_history(operation_history, limit)])

UndoLastOperation ==
    \E out \in {undo_last_operation(fs, operation_history)} :
        Returns("undo_last_operation", <<>>, <<>>, FALSE, out)

\* Another process deletes a file the rename just made produced: the case
\* "if current_path.exists()" of _undo_batch_rename provides for.
ExternalRemove ==
    /\ call.op = "batch_rename_files"
    /\ Len(operation_history) > Len(call.history)
    /\ \E k \in 1..Len(operation_history[Len(operation_history)].result.renamed_files) :
          LET file_info == operation_history[Len(operation_history)].result.renamed_files[k]
              current_path == Child(Parent(file_info.path), file_info.new)
          IN  /\ file_info.status = "renamed"
              /\ is_file(fs, current_path)
              /\ fs' = removed(fs, current_path)
              /\ call' = [op |-> "external", path |-> current_path]
              /\ UNCHANGED <<posix, operation_history, analysis_cache>>

Next ==
    \/ SmartOrganizeDirectory
    \/ BatchRenameFiles
    \/ CleanupEmptyDirectories
    \/ GetOperationHistory
    \/ UndoLastOperation
    \/ ExternalRemove

Spec == Init /\ [][Next]_vars

----------------------------------------------------------------------------
(* What the claims speak of *)

Organized == call.op = "smart_organize_directory"
Renamed == call.op = "batch_rename_files"
Cleaned == call.op = "cleanup_empty_directories"
Undone == call.op = "undo_last_operation"

\* the call was given a path that does not exist, is not a directory or lies
\* under a protected path, or a strategy that is none of the four
Rejectable ==
    /\ Organized \/ Renamed \/ Cleaned
    /\ \/ call.path \notin DOMAIN call.fs
       \/ call.fs[call.path].kind # "dir"
       \/ call.path = ProtectedDir
       \/ (Organized /\ call.arg \notin {"type", "date", "size", "extension"})

IsPrefix(s, t) == Len(s) <= Len(t) /\ SubSeq(t, 1, Len(s)) = s

FilesUnder(f, dir) == {p \in DOMAIN f : IsUnder(p, dir) /\ f[p].kind = "file"}
TopFilesOf(f, dir) == {p \in DOMAIN f : IsChildOf(p, dir) /\ f[p].kind = "file"}

\* the paths at which f holds content c
Holding(f, c) == {p \in DOMAIN f : f[p].kind = "file" /\ f[p].content = c}

\* C1: an organize, rename or cleanup call on a path that does not exist, is
\* not a directory or is protected, and an organize call with an unsupported
\* strategy, returns success = false with an error message and leaves the
\* filesystem as it was.
C1_RejectedCallChangesNothing ==
    Rejectable =>
        /\ call.result.success = FALSE
        /\ "error" \in DOMAIN call.result
        /\ call.result.error # ""
        /\ fs = call.fs

\* a cleanup of the protected directory, which holds an empty directory, was refused
C1_Witness ==
    /\ Cleaned
    /\ call.path = ProtectedDir
    /\ call.result.success = FALSE
    /\ \E p \in DOMAIN fs : IsChildOf(p, ProtectedDir) /\ fs[p].kind = "dir"

----------------------------------------------------------------------------
(* Batch rename: what a call was asked and what it reports *)

RenameApplied == Renamed /\ call.result.success /\ ~call.preview
RenamePreviewed == Renamed /\ call.result.success /\ call.preview

\* the name the pattern gives the k-th file of the call's listing, before any
\* collision is resolved
Wanted(k) ==
    apply_rename_pattern(call.fs, call.result.renamed_files[k].path, call.arg, k)

\* exactly the i-th and the j-th file of the listing are given the same name
Colliding(i, j) ==
    /\ i < j
    /\ Wanted(i) = Wanted(j)
    /\ \A k \in 1..Len(call.result.renamed_files) : Wanted(k) = Wanted(i) => k \in {i, j}

\* N and the numbered names N_1, N_2, ... the collision loop can reach
Family(N) ==
    {N} \cup {numbered(N, c) : c \in 1..Cardinality(iterdir(call.fs, call.path))}

\* no entry of the directory other than the i-th and j-th file has, or is
\* given, the name N or N_1
NamesFree(i, j) ==
    LET N == Wanted(i)
        own == {call.result.renamed_files[i].path, call.result.renamed_files[j].path}
    IN  /\ \A p \in iterdir(call.fs, call.path) \ own : BaseName(p) \notin {N, numbered(N, 1)}
        /\ \A k \in 1..Len(call.result.renamed_files) : Wanted(k) # numbered(N, 1)

C4_PreviewChangesNothing ==
    RenamePreviewed =>
        /\ fs = call.fs
        /\ operation_history = call.history
        /\ Len(call.result.renamed_files) = Cardinality(TopFilesOf(call.fs, call.path))
        /\ {call.result.renamed_files[k].path : k \in 1..Len(call.result.renamed_files)}
              = TopFilesOf(call.fs, call.path)
        /\ \A k \in 1..Len(call.result.renamed_files) :
              LET e == call.result.renamed_files[k]
              IN  /\ e.status = "preview"
                  /\ e.original = BaseName(e.path)
                  /\ e.new = BaseName(resolve_new_path(call.fs, e.path, Wanted(k)))

\* a preview of two files or more that gives some file a new name
C4_Witness ==
    /\ RenamePreviewed
    /\ Len(call.result.renamed_files) >= 2
    /\ \E k \in 1..Len(call.result.renamed_files) :
          call.result.renamed_files[k].new # call.result.renamed_files[k].original

\* the original -> new pairs of a result, and the order the files were listed in
Mapping(renamed_files) ==
    {<<renamed_files[k].original, renamed_files[k].new>> : k \in 1..Len(renamed_files)}
Listing(renamed_files) == [k \in 1..Len(renamed_files) |-> renamed_files[k].path]

\* C5: a rename applied right after its preview, on the same directory with
\* the same pattern and the same listing, reports the mapping the preview
\* reported.
C5_ApplyMatchesPreview ==
    [][(/\ RenamePreviewed
        /\ call'.op = "batch_rename_files"
        /\ call'.result.success
        /\ ~call'.preview
        /\ call'.path = call.path
        /\ call'.arg = call.arg
        /\ Listing(call'.result.renamed_files) = Listing(call.result.renamed_files))
       => Mapping(call'.result.renamed_files) = Mapping(call.result.renamed_files)]_vars

\* C6: an undo right after an applied rename puts the filesystem and the
\* history back to what they were before the rename, and an undo on an empty
\* history fails with the "nothing to undo" error.
C6_UndoRestoresRename ==
    [][/\ (RenameApplied /\ call'.op = "undo_last_operation")
          => (fs' = call.fs /\ operation_history' = call.history)
       /\ (operation_history = <<>> /\ call'.op = "undo_last_operation")
          => (call'.result = [success |-> FALSE, error |-> ErrNothingToUndo])]_vars

\* the entry an undo call worked on
UndoneEntry == call.history[Len(call.history)]

\* C7: an undo of a batch_rename entry that removed the entry from the
\* history restored every file the entry records as renamed: the file is
\* back under its original name and was reported undone.
C7_PopsOnlyOnFullUndo ==
    (/\ Undone
     /\ call.history # <<>>
     /\ UndoneEntry.operation = "batch_rename"
     /\ Len(operation_history) < Len(call.history))
    => \A k \in 1..Len(UndoneEntry.result.renamed_files) :
          LET e == UndoneEntry.result.renamed_files[k]
          IN  e.status = "renamed" =>
                  /\ is_file(fs, e.path)
                  /\ \E m \in 1..Len(call.result.undone_files) :
                        call.result.undone_files[m] = e.original

\* C8: an undo whose most recent entry is an organize pass or a cleanup
\* fails with the fixed message of that operation and changes neither the
\* history nor the filesystem.
C8_UndoRefusesOrganizeAndCleanup ==
    (/\ Undone
     /\ call.history # <<>>
     /\ UndoneEntry.operation \in {"smart_organize", "cleanup_empty_directories"})
    => /\ call.result = [success |-> FALSE,
                         error |-> IF UndoneEntry.operation = "smart_organize"
                                   THEN ErrUndoOrganize ELSE ErrUndoCleanup]
       /\ fs = call.fs
       /\ operation_history = call.history

\* an undo was refused after an organize pass that moved files
C8_Witness ==
    /\ Undone
    /\ call.history # <<>>
    /\ UndoneEntry.operation = "smart_organize"
    /\ UndoneEntry.result.organized_files >= 1
    /\ call.result.success = FALSE
    /\ operation_history = call.history

\* an organize call, an applied rename or a cleanup call
Recording == Organized \/ (Renamed /\ ~call.preview) \/ Cleaned

\* C9 as stated: every organize call, applied rename and cleanup call appends
\* one record to the history.
C9_EveryInvocationAppends ==
    Recording =>
        /\ Len(operation_history) = Len(call.history) + 1
        /\ IsPrefix(call.history, operation_history)

\* C9: an organize call, an applied rename or a cleanup call that passes
\* validation appends exactly one record, which holds the operation, the
\* path and the result returned; one that is rejected (path missing, not a
\* directory or unsafe, strategy unsupported) appends nothing.
C9_ValidInvocationAppends ==
    Recording =>
        /\ call.result.success <=> ~Rejectable
        /\ call.result.success =>
              /\ Len(operation_history) = Len(call.history) + 1
              /\ IsPrefix(call.history, operation_history)
              /\ operation_history[Len(operation_history)].result = call.result
              /\ operation_history[Len(operation_history)].path = call.path
              /\ operation_history[Len(operation_history)].operation
                    = (IF Organized THEN "smart_organize"
                       ELSE IF Renamed THEN "batch_rename" ELSE "cleanup_empty_directories")
        /\ ~call.result.success => operation_history = call.history

\* an applied rename added the second record of the history
C9_Witness ==
    /\ RenameApplied
    /\ Len(call.history) = 1
    /\ Len(operation_history) = 2
    /\ operation_history[2].result = call.result

\* C10: an organize, rename or cleanup call leaves the previous history as a
\* prefix of the new one, and get_operation_history(limit) with limit > 0
\* returns the last min(limit, length) entries in the order of the history.
C10_HistoryIsAppendOnlyLog ==
    /\ (Organized \/ Renamed \/ Cleaned) => IsPrefix(call.history, operation_history)
    /\ (call.op = "get_operation_history" /\ call.arg > 0) =>
          /\ Len(call.result) = Min(call.arg, Len(call.history))
          /\ \A k \in 1..Len(call.result) :
                call.result[k] = call.history[Len(call.history) - Len(call.result) + k]
          /\ operation_history = call.history
          /\ fs = call.fs

\* the last entry of a history of two different entries was asked for
C10_Witness ==
    /\ call.op = "get_operation_history"
    /\ call.arg = 1
    /\ Len(call.history) = 2
    /\ call.history[1] # call.history[2]
    /\ call.result = <<call.history[2]>>

----------------------------------------------------------------------------
(* Organizing by type: the catch-all category *)

TypeOrganized == Organized /\ call.result.success /\ call.arg = "type"

\* the top-level files the table puts in no category
CatchAll(f, dir) == {p \in TopFilesOf(f, dir) : get_file_type_category(BaseName(p)) = qita}

\* no directory was made or reported for the catch-all category, and every
\* catch-all file is where it was
CatchAllUntouched ==
    /\ Child(call.path, <<qita>>) \notin DOMAIN fs
    /\ \A k \in 1..Len(call.result.created_directories) :
          call.result.created_directories[k] # Child(call.path, <<qita>>)
    /\ \A p \in CatchAll(call.fs, call.path) : p \in DOMAIN fs /\ fs[p] = call.fs[p]

\* C11 as stated: a pass by type leaves the catch-all files alone, and
\* organized_files plus the number of catch-all files is the number of
\* top-level files before the pass.
C11_OrganizedPlusSkippedIsTotal ==
    TypeOrganized =>
        /\ CatchAllUntouched
        /\ call.result.organized_files + Cardinality(CatchAll(call.fs, call.path))
              = Cardinality(TopFilesOf(call.fs, call.path))

\* C11: a pass by type makes no directory for the catch-all category and
\* leaves every catch-all file in place; organized_files plus the catch-all
\* files plus the classified files still at the top level is the number of
\* top-level files before the pass, and a classified file is still at the top
\* level only if the pass reports an error for its category: with no error
\* reported, organized_files plus the catch-all files is the total.
C11_OrganizedPlusSkippedPlusFailedIsTotal ==
    TypeOrganized =>
        /\ CatchAllUntouched
        /\ call.result.organized_files
              + Cardinality(CatchAll(call.fs, call.path))
              + Cardinality(TopFilesOf(fs, call.path) \ CatchAll(call.fs, call.path))
              = Cardinality(TopFilesOf(call.fs, call.path))
        /\ \A p \in TopFilesOf(fs, call.path) \ CatchAll(call.fs, call.path) :
              \E k \in 1..Len(call.result.errors) :
                  call.result.errors[k]
                      = <<"organize_type_error", get_file_type_category(BaseName(p))>>
        /\ call.result.errors = <<>> =>
              call.result.organized_files + Cardinality(CatchAll(call.fs, call.path))
                  = Cardinality(TopFilesOf(call.fs, call.path))

\* a pass by type without error moved a file and left a catch-all file in place
C11_Witness ==
    /\ TypeOrganized
    /\ call.result.errors = <<>>
    /\ call.result.organized_files >= 1
    /\ CatchAll(call.fs, call.path) # {}
    /\ CatchAll(fs, call.path) = CatchAll(call.fs, call.path)

----------------------------------------------------------------------------
(* Failures within a pass *)

\* the group directory a pass puts the top-level file p in
GroupDirOf(p) ==
    CASE call.arg = "type" ->
            Child(call.path, type_dir_name(get_file_type_category(BaseName(p))))
      [] call.arg = "date" -> Child(call.path, <<date_key(call.fs[p].content)>>)
      [] call.arg = "size" -> Child(call.path, size_category(st_size(call.fs[p].content)))
      [] call.arg = "extension" -> Child(call.path, ext_dir_name(ext_key(BaseName(p))))

\* the files a pass has to move and can: not of the catch-all category under
\* "type", not refused by the operating system, and with a group directory
\* whose name no file has taken
Movable(p) ==
    /\ ~(call.arg = "type" /\ p \in CatchAll(call.fs, call.path))
    /\ ~move_raises(call.fs, p)
    /\ ~is_file(call.fs, GroupDirOf(p))

\* C12: a file whose move or rename fails is reported in errors and stops
\* nothing else: an organize pass still moves every other file it has to
\* move, those of the same group included, and a rename pass still reports
\* every other file in renamed_files.
C12_FailureSkipsOnlyTheFailedFile ==
    /\ (Organized /\ call.result.success) =>
          /\ \A p \in TopFilesOf(call.fs, call.path) : Movable(p) => p \notin DOMAIN fs
          /\ (\E p \in TopFilesOf(call.fs, call.path) :
                  move_raises(call.fs, p)
                  /\ ~(call.arg = "type" /\ p \in CatchAll(call.fs, call.path)))
             => call.result.errors # <<>>
    /\ RenameApplied =>
          /\ \A p \in TopFilesOf(call.fs, call.path) :
                ~move_raises(call.fs, p) =>
                    \E k \in 1..Len(call.result.renamed_files) :
                        call.result.renamed_files[k].path = p
          /\ \A p \in TopFilesOf(call.fs, call.path) :
                (move_raises(call.fs, p) /\ p \in DOMAIN fs
                 /\ \A k \in 1..Len(call.result.renamed_files) :
                        call.result.renamed_files[k].path # p)
                => \E k \in 1..Len(call.result.errors) :
                       call.result.errors[k] = <<"rename_error", BaseName(p)>>

----------------------------------------------------------------------------
(* FileAnalyzer (src/file_analyzer.py): hashing and duplicate detection.   *)
(* The analyzer reads the same filesystem; its state is analysis_cache.    *)

\* hashlib.md5 of a file's bytes, as hexdigest: one digest per content (two
\* contents with one MD5 digest are not modelled)
md5_hexdigest(c) == "md5:" \o ToString(c)

\* the contents of files that can be listed and stat'ed and not opened
Unreadable == {9, 10}

\* open(file_path, "rb") raises PermissionError or another OSError
open_raises(f, file_path) ==
    \/ ~is_file(f, file_path)
    \/ f[file_path].content \in Unreadable

\* a hash that is computed anew on every call
rehashed(f, cache, file_path) ==
    IF open_raises(f, file_path) THEN [cache |-> cache, result |-> ""]
    ELSE [cache |-> [q \in DOMAIN cache \cup {file_path} |->
                        IF q = file_path THEN md5_hexdigest(f[file_path].content) ELSE cache[q]],
          result |-> md5_hexdigest(f[file_path].content)]

\* FileAnalyzer.calculate_file_hash: [cache, result]
calculate_file_hash(f, cache, file_path) ==
    IF file_path \in DOMAIN cache THEN [cache |-> cache, result |-> cache[file_path]]
    ELSE IF open_raises(f, file_path) THEN [cache |-> cache, result |-> ""]
    ELSE [cache |-> [q \in DOMAIN cache \cup {file_path} |->
                        IF q = file_path THEN md5_hexdigest(f[file_path].content) ELSE cache[q]],
          result |-> md5_hexdigest(f[file_path].content)]

\* 1024 ** i
RECURSIVE pow1024(_)
pow1024(i) == IF i = 0 THEN 1 ELSE 1024 * pow1024(i - 1)

\* the unit format_file_size stops at: the index in ["B", "KB", "MB", "GB", "TB"]
RECURSIVE size_unit(_, _)
size_unit(size_bytes, i) ==
    IF size_bytes >= 1024 * pow1024(i) /\ i < 4 THEN size_unit(size_bytes, i + 1) ELSE i

\* utils.format_file_size: f"{size_bytes:.1f} {size_names[i]}", the tenths
\* rounded to nearest
format_file_size(size_bytes) ==
    IF size_bytes = 0 THEN "0 B"
    ELSE LET i == size_unit(size_bytes, 0)
             tenths == (size_bytes * 10 + pow1024(i) \div 2) \div pow1024(i)
         IN  ToString(tenths \div 10) \o "." \o ToString(tenths % 10) \o " "
                 \o <<"B", "KB", "MB", "GB", "TB">>[i + 1]

\* the file_info dict of analyze_directory, as far as find_duplicate_files reads it
file_info_of(f, file_path) ==
    [path |-> file_path, name |-> BaseName(file_path), size |-> st_size(f[file_path].content)]

\* "for file_info in files": the hashes of the files of one size bucket, in
\* order, and the cache the calls leave; st = [cache, hashes]
RECURSIVE hash_files(_, _, _, _)
hash_files(f, st, files, i) ==
    IF i > Len(files) THEN st
    ELSE LET out == calculate_file_hash(f, st.cache, files[i].path)
         IN  hash_files(f, [cache |-> out.cache, hashes |-> Append(st.hashes, out.result)],
                        files, i + 1)

\* "for file_hash, duplicate_files in hash_groups.items()"
RECURSIVE duplicate_groups(_, _, _, _, _)
duplicate_groups(size, files, hashes, keys, g) ==
    IF g > Len(keys) THEN <<>>
    ELSE LET duplicate_files == members(files, hashes, keys[g], 1)
         IN  (IF Len(duplicate_files) > 1
              THEN << [hash |-> keys[g],
                       size |-> format_file_size(size),
                       count |-> Len(duplicate_files),
                       files |-> [k \in 1..Len(duplicate_files) |->
                                    [name |-> duplicate_files[k].name,
                                     path |-> duplicate_files[k].path]]] >>
              ELSE <<>>)
             \o duplicate_groups(size, files, hashes, keys, g + 1)

\* "for size, files in size_groups.items()"; st = [cache, duplicates]
RECURSIVE by_size_buckets(_, _, _, _, _, _)
by_size_buckets(f, st, infos, sizes, keys, g) ==
    IF g > Len(keys) THEN st
    ELSE LET files == members(infos, sizes, keys[g], 1)
         IN  IF Len(files) > 1
             THEN LET hashed == hash_files(f, [cache |-> st.cache, hashes |-> <<>>], files, 1)
                  IN  by_size_buckets(
                          f,
                          [cache |-> hashed.cache,
                           duplicates |-> st.duplicates
                               \o duplicate_groups(keys[g], files, hashed.hashes,
                                                   first_seen(hashed.hashes), 1)],
                          infos, sizes, keys, g + 1)
             ELSE by_size_buckets(f, st, infos, sizes, keys, g + 1)

\* FileAnalyzer.find_duplicate_files: [cache, result]
find_duplicate_files(f, cache, files_info) ==
    LET infos == SelectSeq(files_info, LAMBDA file_info : file_info.size > 0)
        sizes == [i \in 1..Len(infos) |-> infos[i].size]
        st == by_size_buckets(f, [cache |-> cache, duplicates |-> <<>>],
                              infos, sizes, first_seen(sizes), 1)
    IN  [cache |-> st.cache, result |-> st.duplicates]

----------------------------------------------------------------------------
(* The analyzer's steps *)

c_txt == <<"c", ".", "txt">>

\* the paths of the analyzed directory and the contents a file there can
\* have: 1 and 6 (10 bytes each, different), 5 (empty), 9 and 10 (10 bytes
\* each, different, not readable)
AnalyzedPaths == {Child(WorkDir, n) : n \in {a_txt, b_txt, c_txt}}
AnalyzedContents == {1, 5, 6, 9, 10}

AnalyzerInit ==
    /\ posix = TRUE
    /\ \E paths \in SUBSET AnalyzedPaths : \E contents \in [paths -> AnalyzedContents] :
          fs = (WorkDir :> Dir) @@ [p \in paths |-> File(contents[p])]
    /\ operation_history = <<>>
    /\ analysis_cache = <<>>
    /\ call = NoCall

AnalyzerReturns(op, arg, out) ==
    /\ analysis_cache' = out.cache
    /\ call' = [op |-> op, arg |-> arg, result |-> out.result,
                fs |-> fs, cache |-> analysis_cache]
    /\ UNCHANGED <<posix, fs, operation_history>>

CalculateFileHash ==
    \E file_path \in AnalyzedPaths :
        AnalyzerReturns("calculate_file_hash", file_path,
                        calculate_file_hash(fs, analysis_cache, file_path))

\* analyze_directory hands find_duplicate_files the files it listed, in the
\* order its sorts left them
FindDuplicateFiles ==
    \E listing \in Orders(TopFilesOf(fs, WorkDir)) :
        AnalyzerReturns("find_duplicate_files", listing,
                        find_duplicate_files(fs, analysis_cache,
                                             [i \in 1..Len(listing) |-> file_info_of(fs, listing[i])]))

\* Another program rewrites a file: same length, other bytes.
RewriteFile ==
    /\ \E file_path \in TopFilesOf(fs, WorkDir) :
          /\ fs[file_path].content \in {1, 6}
          /\ fs' = [fs EXCEPT ![file_path] = File(7 - fs[file_path].content)]
          /\ call' = [op |-> "external", path |-> file_path]
    /\ UNCHANGED <<posix, operation_history, analysis_cache>>

AnalyzerNext ==
    \/ CalculateFileHash
    \/ FindDuplicateFiles
    \/ RewriteFile

AnalyzerSpec == AnalyzerInit /\ [][AnalyzerNext]_vars

----------------------------------------------------------------------------
(* Duplicate detection and the hash cache *)

Deduplicated == call.op = "find_duplicate_files"
Hashed == call.op = "calculate_file_hash"

\* the paths of the g-th group reported
GroupPaths(g) == {call.result[g].files[k].path : k \in 1..Len(call.result[g].files)}

\* the files of the listing with the size and the content hash of p
SameSizeAndHash(p) ==
    {q \in TopFilesOf(call.fs, WorkDir) :
        /\ st_size(call.fs[q].content) = st_size(call.fs[p].content)
        /\ md5_hexdigest(call.fs[q].content) = md5_hexdigest(call.fs[p].content)}

\* C13: the groups find_duplicate_files reports are exactly the maximal sets
\* of two or more non-empty files of one size and one content hash, each
\* reported once with its count.
C13_GroupsAreTheDuplicateSets ==
    Deduplicated =>
        /\ {GroupPaths(g) : g \in 1..Len(call.result)}
              = {SameSizeAndHash(p) : p \in {q \in TopFilesOf(call.fs, WorkDir) :
                                                /\ st_size(call.fs[q].content) > 0
                                                /\ Cardinality(SameSizeAndHash(q)) >= 2}}
        /\ \A g, h \in 1..Len(call.result) : GroupPaths(g) = GroupPaths(h) => g = h
        /\ \A g \in 1..Len(call.result) :
              /\ call.result[g].count = Cardinality(GroupPaths(g))
              /\ call.result[g].count = Len(call.result[g].files)

\* C14: no group find_duplicate_files reports holds a file that cannot be
\* opened.
C14_UnreadableFileIsInNoGroup ==
    Deduplicated =>
        \A g \in 1..Len(call.result) : \A p \in GroupPaths(g) : ~open_raises(call.fs, p)

\* C15: no step removes or changes an entry of the cache; an entry is added
\* only for a file that was just hashed, with the hash of its content; and
\* calculate_file_hash of a path in the cache returns the entry.
C15_CacheIsNeverInvalidated ==
    [][/\ \A p \in DOMAIN analysis_cache :
              p \in DOMAIN analysis_cache' /\ analysis_cache'[p] = analysis_cache[p]
       /\ \A p \in DOMAIN analysis_cache' \ DOMAIN analysis_cache :
              /\ call'.op \in {"calculate_file_hash", "find_duplicate_files"}
              /\ call'.op = "calculate_file_hash" => p = call'.arg
              /\ is_file(fs, p)
              /\ analysis_cache'[p] = md5_hexdigest(fs[p].content)
       /\ (call'.op = "calculate_file_hash" /\ call'.arg \in DOMAIN analysis_cache)
          => call'.result = analysis_cache[call'.arg]]_vars

\* calculate_file_hash returned the cached hash of a file rewritten since
C15_Witness ==
    /\ Hashed
    /\ call.arg \in DOMAIN call.cache
    /\ call.result = call.cache[call.arg]
    /\ call.result # md5_hexdigest(fs[call.arg].content)

----------------------------------------------------------------------------
(* NLPProcessor (src/nlp_processor.py).  A text is the sequence of its     *)
(* characters; a character outside ASCII is written by its code point      *)
(* ("u5220" is U+5220).  Substring tests and the searches of the regular   *)
(* expressions are computed on the characters.                             *)

\* the ASCII letters, capital and small
ascii_letters ==
    [upper |-> <<"A", "B", "C", "D", "E", "F", "G", "H", "I", "J", "K", "L", "M",
                 "N", "O", "P", "Q", "R", "S", "T", "U", "V", "W", "X", "Y", "Z">>,
     lower |-> <<"a", "b", "c", "d", "e", "f", "g", "h", "i", "j", "k", "l", "m",
                 "n", "o", "p", "q", "r", "s", "t", "u", "v", "w", "x", "y", "z">>]

\* str.lower(), character by character
str_lower(text) ==
    LET char_lower(c) ==
            IF \E i \in 1..Len(ascii_letters.upper) : ascii_letters.upper[i] = c
            THEN ascii_letters.lower[CHOOSE i \in 1..Len(ascii_letters.upper) : ascii_letters.upper[i] = c]
            ELSE c
    IN  [i \in 1..Len(text) |-> char_lower(text[i])]

\* str.strip(): the text without its leading and trailing blanks
RECURSIVE str_strip(_)
str_strip(text) ==
    IF text = <<>> THEN text
    ELSE IF text[1] = " " THEN str_strip(Tail(text))
    ELSE IF text[Len(text)] = " " THEN str_strip(SubSeq(text, 1, Len(text) - 1))
    ELSE text

\* the literal word stands in text at position i
occurs_at(text, word, i) ==
    /\ i >= 1
    /\ i + Len(word) - 1 <= Len(text)
    /\ SubSeq(text, i, i + Len(word) - 1) = word

\* "word in text"
str_contains(text, word) == \E i \in 1..Len(text) : occurs_at(text, word, i)

\* re.search(pattern, text_lower) for a pattern "(a|b|...)"; an alternative
\* is a literal or "head.*tail" (the texts hold no line break, so "." matches
\* every character)
re_search(pattern, text) ==
    LET found(alternative) ==
            IF Len(alternative) = 1 THEN str_contains(text, alternative[1])
            ELSE \E i, j \in 1..Len(text) :
                    /\ occurs_at(text, alternative[1], i)
                    /\ occurs_at(text, alternative[2], j)
                    /\ j >= i + Len(alternative[1])
    IN  \E k \in 1..Len(pattern) : found(pattern[k])

\* NLPProcessor._load_intent_patterns: the intents in declared order, each
\* with its patterns; a pattern is the list of its alternatives, and an
\* alternative is the list of the literals ".*" separates.
intent_patterns == <<
    [intent |-> "search", patterns |-> <<
        \* r"(找|搜索|查找|寻找|locate|find|search)"
        <<
            <<<<"u627E">>>>, <<<<"u641C", "u7D22">>>>, <<<<"u67E5", "u627E">>>>,
            <<<<"u5BFB", "u627E">>>>, <<<<"l", "o", "c", "a", "t", "e">>>>,
            <<<<"f", "i", "n", "d">>>>, <<<<"s", "e", "a", "r", "c", "h">>>> >>,
        \* r"(显示|列出|show|list|display)"
        <<
            <<<<"u663E", "u793A">>>>, <<<<"u5217", "u51FA">>>>, <<<<"s", "h", "o", "w">>>>,
            <<<<"l", "i", "s", "t">>>>, <<<<"d", "i", "s", "p", "l", "a", "y">>>> >>,
        \* r"(在哪|where)"
        <<
            <<<<"u5728", "u54EA">>>>, <<<<"w", "h", "e", "r", "e">>>> >>,
        \* r"(有没有|是否存在|exist)"
        <<
            <<<<"u6709", "u6CA1", "u6709">>>>, <<<<"u662F", "u5426", "u5B58", "u5728">>>>,
            <<<<"e", "x", "i", "s", "t">>>> >> >>],
    [intent |-> "move", patterns |-> <<
        \* r"(移动|剪切|move|cut)"
        <<
            <<<<"u79FB", "u52A8">>>>, <<<<"u526A", "u5207">>>>, <<<<"m", "o", "v", "e">>>>,
            <<<<"c", "u", "t">>>> >>,
        \* r"(搬到|移到|move.*to)"
        <<
            <<<<"u642C", "u5230">>>>, <<<<"u79FB", "u5230">>>>,
            <<<<"m", "o", "v", "e">>, <<"t", "o">>>> >>,
        \* r"(转移|transfer)"
        <<
            <<<<"u8F6C", "u79FB">>>>, <<<<"t", "r", "a", "n", "s", "f", "e", "r">>>> >> >>],
    [intent |-> "copy", patterns |-> <<
        \* r"(复制|拷贝|copy|duplicate)"
        <<
            <<<<"u590D", "u5236">>>>, <<<<"u62F7", "u8D1D">>>>, <<<<"c", "o", "p", "y">>>>,
            <<<<"d", "u", "p", "l", "i", "c", "a", "t", "e">>>> >>,
        \* r"(备份|backup)"
        <<
            <<<<"u5907", "u4EFD">>>>, <<<<"b", "a", "c", "k", "u", "p">>>> >>,
        \* r"(克隆|clone)"
        <<
            <<<<"u514B", "u9686">>>>, <<<<"c", "l", "o", "n", "e">>>> >> >>],
    [intent |-> "delete", patterns |-> <<
        \* r"(删除|移除|remove|delete|del)"
        <<
            <<<<"u5220", "u9664">>>>, <<<<"u79FB", "u9664">>>>,
            <<<<"r", "e", "m", "o", "v", "e">>>>, <<<<"d", "e", "l", "e", "t", "e">>>>,
            <<<<"d", "e", "l">>>> >>,
        \* r"(清理|清除|clean|clear)"
        <<
            <<<<"u6E05", "u7406">>>>, <<<<"u6E05", "u9664">>>>,
            <<<<"c", "l", "e", "a", "n">>>>, <<<<"c", "l", "e", "a", "r">>>> >>,
        \* r"(丢弃|discard)"
        <<
            <<<<"u4E22", "u5F03">>>>, <<<<"d", "i", "s", "c", "a", "r", "d">>>> >> >>],
    [intent |-> "create", patterns |-> <<
        \* r"(创建|新建|建立|create|make|new)"
        <<
            <<<<"u521B", "u5EFA">>>>, <<<<"u65B0", "u5EFA">>>>, <<<<"u5EFA", "u7ACB">>>>,
            <<<<"c", "r", "e", "a", "t", "e">>>>, <<<<"m", "a", "k", "e">>>>,
            <<<<"n", "e", "w">>>> >>,
        \* r"(生成|generate)"
        <<
            <<<<"u751F", "u6210">>>>, <<<<"g", "e", "n", "e", "r", "a", "t", "e">>>> >>,
        \* r"(添加|add)"
        <<
            <<<<"u6DFB", "u52A0">>>>, <<<<"a", "d", "d">>>> >> >>],
    [intent |-> "organize", patterns |-> <<
        \* r"(整理|组织|organize|sort|arrange)"
        <<
            <<<<"u6574", "u7406">>>>, <<<<"u7EC4", "u7EC7">>>>,
            <<<<"o", "r", "g", "a", "n", "i", "z", "e">>>>, <<<<"s", "o", "r", "t">>>>,
            <<<<"a", "r", "r", "a", "n", "g", "e">>>> >>,
        \* r"(分类|classify|categorize)"
        <<
            <<<<"u5206", "u7C7B">>>>, <<<<"c", "l", "a", "s", "s", "i", "f", "y">>>>,
            <<<<"c", "a", "t", "e", "g", "o", "r", "i", "z", "e">>>> >>,
        \* r"(归档|archive)"
        <<
            <<<<"u5F52", "u6863">>>>, <<<<"a", "r", "c", "h", "i", "v", "e">>>> >> >>],
    [intent |-> "compress", patterns |-> <<
        \* r"(压缩|打包|zip|compress|pack)"
        <<
            <<<<"u538B", "u7F29">>>>, <<<<"u6253", "u5305">>>>, <<<<"z", "i", "p">>>>,
            <<<<"c", "o", "m", "p", "r", "e", "s", "s">>>>, <<<<"p", "a", "c", "k">>>> >>,
        \* r"(归档|archive.*zip)"
        <<
            <<<<"u5F52", "u6863">>>>,
            <<<<"a", "r", "c", "h", "i", "v", "e">>, <<"z", "i", "p">>>> >> >>],
    [intent |-> "extract", patterns |-> <<
        \* r"(解压|解压缩|unzip|extract|unpack)"
        <<
            <<<<"u89E3", "u538B">>>>, <<<<"u89E3", "u538B", "u7F29">>>>,
            <<<<"u", "n", "z", "i", "p">>>>, <<<<"e", "x", "t", "r", "a", "c", "t">>>>,
            <<<<"u", "n", "p", "a", "c", "k">>>> >>,
        \* r"(展开|expand)"
        <<
            <<<<"u5C55", "u5F00">>>>, <<<<"e", "x", "p", "a", "n", "d">>>> >> >>],
    [intent |-> "analyze", patterns |-> <<
        \* r"(分析|analyze|analysis)"
        <<
            <<<<"u5206", "u6790">>>>, <<<<"a", "n", "a", "l", "y", "z", "e">>>>,
            <<<<"a", "n", "a", "l", "y", "s", "i", "s">>>> >>,
        \* r"(统计|statistics|stats)"
        <<
            <<<<"u7EDF", "u8BA1">>>>, <<<<"s", "t", "a", "t", "i", "s", "t", "i", "c", "s">>>>,
            <<<<"s", "t", "a", "t", "s">>>> >>,
        \* r"(报告|report)"
        <<
            <<<<"u62A5", "u544A">>>>, <<<<"r", "e", "p", "o", "r", "t">>>> >> >>],
    [intent |-> "rename", patterns |-> <<
        \* r"(重命名|改名|rename)"
        <<
            <<<<"u91CD", "u547D", "u540D">>>>, <<<<"u6539", "u540D">>>>,
            <<<<"r", "e", "n", "a", "m", "e">>>> >>,
        \* r"(更名|change.*name)"
        <<
            <<<<"u66F4", "u540D">>>>,
            <<<<"c", "h", "a", "n", "g", "e">>, <<"n", "a", "m", "e">>>> >> >>] >>

\* a fraction num/den with den > 0: the scores are compared and reported as
\* fractions (the floating-point values of the program are distinct exactly
\* when the fractions are)
Fraction(num, den) == [num |-> num, den |-> den]
frac_less(a, b) == a.num * b.den < b.num * a.den
frac_equal(a, b) == a.num * b.den = b.num * a.den
frac_times(a, b) == Fraction(a.num * b.num, a.den * b.den)

\* "matches": the patterns of the k-th intent found in the lower-cased text
matches_of(text, k) ==
    Cardinality({p \in 1..Len(intent_patterns[k].patterns) :
                    re_search(intent_patterns[k].patterns[p], str_lower(text))})

\* a classifier that wants two patterns of an intent before it scores it
scored_twice(matches) == matches > 1

\* "if matches > 0"
scored(matches) == matches > 0

\* intent_scores[intent]: score is 1.0 / len(patterns) added once per match,
\* and the entry is score * (matches / len(patterns))
intent_score(text, k) ==
    LET total == Len(intent_patterns[k].patterns)
        score == Fraction(matches_of(text, k), total)
    IN  frac_times(score, Fraction(matches_of(text, k), total))

\* the keys of intent_scores
scored_intents(text) == {k \in 1..Len(intent_patterns) : scored(matches_of(text, k))}

\* a maximum that keeps the last of the entries no entry exceeds
last_best_intent(text) ==
    CHOOSE k \in scored_intents(text) :
        /\ \A j \in scored_intents(text) : ~frac_less(intent_score(text, k), intent_score(text, j))
        /\ \A j \in scored_intents(text) : j > k => frac_less(intent_score(text, j), intent_score(text, k))

\* max(intent_scores.items(), key=lambda x: x[1]): the first entry, in
\* insertion order, that no entry exceeds
best_intent(text) ==
    CHOOSE k \in scored_intents(text) :
        /\ \A j \in scored_intents(text) : ~frac_less(intent_score(text, k), intent_score(text, j))
        /\ \A j \in scored_intents(text) : j < k => frac_less(intent_score(text, j), intent_score(text, k))

\* min(score, 1.0)
clamped(score) == IF score.num > score.den THEN Fraction(1, 1) ELSE score

\* a classifier that falls back on the first intent of the table
identify_intent_or_search(text) ==
    IF scored_intents(text) = {}
    THEN [name |-> intent_patterns[1].intent, confidence |-> Fraction(0, 1)]
    ELSE [name |-> intent_patterns[best_intent(text)].intent,
          confidence |-> clamped(intent_score(text, best_intent(text)))]

\* NLPProcessor._identify_intent
identify_intent(text) ==
    IF scored_intents(text) = {}
    THEN [name |-> "unknown", confidence |-> Fraction(0, 1)]
    ELSE [name |-> intent_patterns[best_intent(text)].intent,
          confidence |-> clamped(intent_score(text, best_intent(text)))]

----------------------------------------------------------------------------
(* Size constraints: parse_size_string (src/utils.py) and                  *)
(* NLPProcessor._extract_size_constraint.  An optional result is a function *)
(* that is empty for None.                                                  *)

\* the units of the size pattern in the order of its alternation
\* (b|byte|bytes|字节|kb|mb|gb|tb), each with its Config.SIZE_UNITS multiplier
\* 1024 ** power
size_units == <<
    \* b
    [unit |-> <<"b">>, power |-> 0],
    \* byte
    [unit |-> <<"b", "y", "t", "e">>, power |-> 0],
    \* bytes
    [unit |-> <<"b", "y", "t", "e", "s">>, power |-> 0],
    \* 字节
    [unit |-> <<"u5B57", "u8282">>, power |-> 0],
    \* kb
    [unit |-> <<"k", "b">>, power |-> 1],
    \* mb
    [unit |-> <<"m", "b">>, power |-> 2],
    \* gb
    [unit |-> <<"g", "b">>, power |-> 3],
    \* tb
    [unit |-> <<"t", "b">>, power |-> 4] >>

\* parse_size_string: the leftmost match of
\*   (\d+(?:\.\d+)?)\s*(b|byte|bytes|字节|kb|mb|gb|tb)
\* in the lower-cased text, as <<int(size_value * multiplier)>>, or <<>> for
\* None.  A match that starts at a digit takes the whole run of digits, the
\* fraction when one follows, and every blank, since giving one back leaves a
\* character no later part of the pattern accepts; the unit is the first
\* alternative that stands there.
parse_size_string(size_str) ==
    LET digits == <<"0", "1", "2", "3", "4", "5", "6", "7", "8", "9">>
        RECURSIVE pow10(_)
        pow10(n) == IF n = 0 THEN 1 ELSE 10 * pow10(n - 1)
        parsed(t) ==
            LET is_digit(i) == i <= Len(t) /\ \E d \in 1..Len(digits) : digits[d] = t[i]
                digit_value(i) == (CHOOSE d \in 1..Len(digits) : digits[d] = t[i]) - 1
                \* the position after the run of digits (of blanks) that starts at i
                digits_end(i) == CHOOSE j \in i..(Len(t) + 1) :
                                    /\ \A k \in i..(j - 1) : is_digit(k)
                                    /\ ~is_digit(j)
                blanks_end(i) == CHOOSE j \in i..(Len(t) + 1) :
                                    /\ \A k \in i..(j - 1) : t[k] = " "
                                    /\ j > Len(t) \/ t[j] # " "
                \* the position after the fraction, when one follows the digits that end before d
                value_end(d) == IF d <= Len(t) /\ t[d] = "." /\ is_digit(d + 1)
                                THEN digits_end(d + 1) ELSE d
                \* the units that stand after the value that starts at i
                units_at(i) == {u \in 1..Len(size_units) :
                                  occurs_at(t, size_units[u].unit, blanks_end(value_end(digits_end(i))))}
                RECURSIVE number(_, _)
                number(i, j) == IF j <= i THEN 0 ELSE 10 * number(i, j - 1) + digit_value(j - 1)
                \* int(size_value * multiplier) for the digits from i to d, the fraction
                \* digits from d + 1 to v and the power of the unit
                size(i, d, v, power) ==
                    IF v = d THEN number(i, d) * pow1024(power)
                    ELSE ((number(i, d) * pow10(v - d - 1) + number(d + 1, v)) * pow1024(power))
                            \div pow10(v - d - 1)
                unit_of(units) == size_units[CHOOSE u \in units : \A v \in units : u <= v]
                match(i, d) == size(i, d, value_end(d), unit_of(units_at(i)).power)
                leftmost(starts) ==
                    IF starts = {} THEN <<>>
                    ELSE <<match(CHOOSE i \in starts : \A j \in starts : i <= j,
                                 digits_end(CHOOSE i \in starts : \A j \in starts : i <= j))>>
            IN  leftmost({i \in 1..Len(t) : is_digit(i) /\ units_at(i) # {}})
    IN  parsed(str_lower(size_str))

\* the comparison words of _extract_size_constraint
more_words == {
      \* '大于'
      <<"u5927", "u4E8E">>,
      \* '超过'
      <<"u8D85", "u8FC7">>,
      \* '大过'
      <<"u5927", "u8FC7">>,
      \* 'more than'
      <<"m", "o", "r", "e", " ", "t", "h", "a", "n">>,
      \* 'larger than'
      <<"l", "a", "r", "g", "e", "r", " ", "t", "h", "a", "n">>,
      \* '>'
      <<">">> }
less_words == {
      \* '小于'
      <<"u5C0F", "u4E8E">>,
      \* '少于'
      <<"u5C11", "u4E8E">>,
      \* '小过'
      <<"u5C0F", "u8FC7">>,
      \* 'less than'
      <<"l", "e", "s", "s", " ", "t", "h", "a", "n">>,
      \* 'smaller than'
      <<"s", "m", "a", "l", "l", "e", "r", " ", "t", "h", "a", "n">>,
      \* '<'
      <<"<">> }

\* NLPProcessor._extract_size_constraint: "if size_bytes" is false for None
\* and for 0; the comparison words are looked for in the text as given;
\* int(size_bytes * 0.9) and int(size_bytes * 1.1) are the truncated tenths
\* (the floating-point products truncate to these for the sizes of the texts)
extract_size_constraint(text) ==
    LET size_constraint(size_bytes) ==
            IF size_bytes = <<>> \/ size_bytes[1] = 0 THEN <<>>
            ELSE IF \E word \in more_words : str_contains(text, word)
                 THEN [k \in {"min"} |-> size_bytes[1]]
            ELSE IF \E word \in less_words : str_contains(text, word)
                 THEN [k \in {"max"} |-> size_bytes[1]]
            ELSE [k \in {"min", "max"} |->
                     IF k = "min" THEN (9 * size_bytes[1]) \div 10 ELSE (11 * size_bytes[1]) \div 10]
    IN  size_constraint(parse_size_string(text))

----------------------------------------------------------------------------
(* The entities of a command and its validation.  An extractor returns <<>> *)
(* for None and <<value>> for a value.                                      *)

\* \w: every character of the texts but the blank and the punctuation
word_char(c) == c \notin {" ", ".", ",", "/", "\\", ":", ">", "<", "'", "\"", "uFF0C", "u3002"}

\* NLPProcessor._extract_keywords with utils.extract_keywords_from_text: the
\* words (\b\w+\b) of the lower-cased text that are no stop words and longer
\* than 2; None when there is none
extract_keywords(text) ==
    LET t == str_lower(text)
        stop_words == {
            <<"u5E2E", "u6211">>, <<"u8BF7">>, <<"u628A">>, <<"u5C06">>, <<"u6240", "u6709">>,
            <<"u7684">>, <<"u6587", "u4EF6">>, <<"u627E", "u5230">>, <<"u67E5", "u627E">>,
            <<"u641C", "u7D22">>, <<"h", "e", "l", "p">>, <<"m", "e">>,
            <<"p", "l", "e", "a", "s", "e">>, <<"a", "l", "l">>, <<"t", "h", "e">>,
            <<"f", "i", "l", "e">>, <<"f", "i", "l", "e", "s">>, <<"f", "i", "n", "d">>,
            <<"s", "e", "a", "r", "c", "h">>, <<"a">>, <<"a", "n">>, <<"a", "n", "d">>,
            <<"o", "r">>, <<"b", "u", "t">>, <<"i", "n">>, <<"o", "n">>, <<"a", "t">>,
            <<"t", "o">>, <<"f", "o", "r">>, <<"o", "f">>, <<"w", "i", "t", "h">> }
        is_word(i, j) ==
            /\ i <= j
            /\ \A k \in i..j : word_char(t[k])
            /\ i = 1 \/ ~word_char(t[i - 1])
            /\ j = Len(t) \/ ~word_char(t[j + 1])
        words == {SubSeq(t, w[1], w[2]) :
                    w \in {w \in (1..Len(t)) \X (1..Len(t)) : is_word(w[1], w[2])}}
        keywords == {word \in words : word \notin stop_words /\ Len(word) > 2}
    IN  IF keywords = {} THEN <<>> ELSE <<keywords>>

\* NLPProcessor._extract_file_type: the first name of Config.FILE_TYPE_MAPPING
\* found in the lower-cased text (the name stands for its list of
\* extensions), else the extensions found by
\*   \.(jpg|jpeg|png|gif|pdf|doc|docx|txt|mp4|avi|mp3|wav|zip|rar)\b
extract_file_type(text) ==
    LET t == str_lower(text)
        type_names == <<
            <<"u56FE", "u7247">>, <<"u89C6", "u9891">>, <<"u6587", "u6863">>,
            <<"u8868", "u683C">>, <<"u6F14", "u793A">>, <<"u97F3", "u9891">>,
            <<"u4EE3", "u7801">>, <<"u538B", "u7F29">>, <<"u56FE", "u50CF">>,
            <<"p", "i", "c", "t", "u", "r", "e">>, <<"v", "i", "d", "e", "o">>,
            <<"d", "o", "c", "u", "m", "e", "n", "t">>, <<"a", "u", "d", "i", "o">>,
            <<"c", "o", "d", "e">>, <<"a", "r", "c", "h", "i", "v", "e">> >>
        extensions == {
            <<"j", "p", "g">>, <<"j", "p", "e", "g">>, <<"p", "n", "g">>, <<"g", "i", "f">>,
            <<"p", "d", "f">>, <<"d", "o", "c">>, <<"d", "o", "c", "x">>, <<"t", "x", "t">>,
            <<"m", "p", "4">>, <<"a", "v", "i">>, <<"m", "p", "3">>, <<"w", "a", "v">>,
            <<"z", "i", "p">>, <<"r", "a", "r">> }
        named == {k \in 1..Len(type_names) : str_contains(t, type_names[k])}
        matches == {e \in extensions :
                      \E i \in 1..Len(t) :
                          /\ t[i] = "."
                          /\ occurs_at(t, e, i + 1)
                          /\ i + Len(e) = Len(t) \/ ~word_char(t[i + Len(e) + 1])}
    IN  IF named # {} THEN <<type_names[CHOOSE k \in named : \A j \in named : k <= j]>>
        ELSE IF matches # {} THEN <<matches>>
        ELSE <<>>

\* NLPProcessor._extract_path: the first name of path_mapping found in the
\* lower-cased text (the name stands for its folder), else the leftmost match
\* of [a-zA-Z]:\\[^\\s]* and else of /[^\\s]* in the text; the class [^\\s]
\* excludes the backslash and the letter s
extract_path(text) ==
    LET t == str_lower(text)
        path_names == <<
            <<"u684C", "u9762">>, <<"u4E0B", "u8F7D">>, <<"u6587", "u6863">>,
            <<"u56FE", "u7247">>, <<"u89C6", "u9891">>, <<"u97F3", "u4E50">>,
            <<"d", "e", "s", "k", "t", "o", "p">>,
            <<"d", "o", "w", "n", "l", "o", "a", "d", "s">>,
            <<"d", "o", "c", "u", "m", "e", "n", "t", "s">>,
            <<"p", "i", "c", "t", "u", "r", "e", "s">>, <<"v", "i", "d", "e", "o", "s">>,
            <<"m", "u", "s", "i", "c">> >>
        named == {k \in 1..Len(path_names) : str_contains(t, path_names[k])}
        letter(c) == \E i \in 1..Len(ascii_letters.upper) :
                        ascii_letters.upper[i] = c \/ ascii_letters.lower[i] = c
        run_end(i) == CHOOSE j \in i..(Len(text) + 1) :
                        /\ \A k \in i..(j - 1) : text[k] \notin {"\\", "s"}
                        /\ j > Len(text) \/ text[j] \in {"\\", "s"}
        windows == {i \in 1..(Len(text) - 2) :
                      letter(text[i]) /\ text[i + 1] = ":" /\ text[i + 2] = "\\"}
        unix == {i \in 1..Len(text) : text[i] = "/"}
        first(S) == CHOOSE i \in S : \A j \in S : i <= j
    IN  IF named # {} THEN <<path_names[first(named)]>>
        ELSE IF windows # {}
             THEN <<SubSeq(text, first(windows), run_end(first(windows) + 3) - 1)>>
        ELSE IF unix # {} THEN <<SubSeq(text, first(unix), run_end(first(unix) + 1) - 1)>>
        ELSE <<>>

\* NLPProcessor._extract_operation_target: what stands between the first
\* pair of quotes ["\']([^"\']+)["\'], else what follows 叫做 or 名为 (\s*) or
\* "called" or "named" (\s+, in any case) up to a blank, "，" or "。"
extract_operation_target(text) ==
    LET t == str_lower(text)
        quotes == {"\"", "'"}
        quoted == {i \in 1..(Len(text) - 2) :
                      /\ text[i] \in quotes
                      /\ text[i + 1] \notin quotes
                      /\ \E j \in (i + 2)..Len(text) : text[j] \in quotes}
        closing(i) == CHOOSE j \in (i + 2)..Len(text) :
                          /\ text[j] \in quotes
                          /\ \A k \in (i + 1)..(j - 1) : text[k] \notin quotes
        name_patterns == <<
            [word |-> <<"u53EB", "u505A">>, blank |-> FALSE],
            [word |-> <<"u540D", "u4E3A">>, blank |-> FALSE],
            [word |-> <<"c", "a", "l", "l", "e", "d">>, blank |-> TRUE],
            [word |-> <<"n", "a", "m", "e", "d">>, blank |-> TRUE] >>
        ends == {" ", "uFF0C", "u3002"}
        blanks_end(i) == CHOOSE j \in i..(Len(text) + 1) :
                            /\ \A k \in i..(j - 1) : text[k] = " "
                            /\ j > Len(text) \/ text[j] # " "
        target_end(i) == CHOOSE j \in i..(Len(text) + 1) :
                            /\ \A k \in i..(j - 1) : text[k] \notin ends
                            /\ j > Len(text) \/ text[j] \in ends
        found(n) == {i \in 1..Len(text) :
                        /\ occurs_at(t, name_patterns[n].word, i)
                        /\ name_patterns[n].blank => blanks_end(i + Len(name_patterns[n].word)) > i + Len(name_patterns[n].word)
                        /\ blanks_end(i + Len(name_patterns[n].word)) <= Len(text)
                        /\ text[blanks_end(i + Len(name_patterns[n].word))] \notin ends}
        first(S) == CHOOSE i \in S : \A j \in S : i <= j
        named == {n \in 1..Len(name_patterns) : found(n) # {}}
        target(n) == blanks_end(first(found(n)) + Len(name_patterns[n].word))
    IN  IF quoted # {} THEN <<SubSeq(text, first(quoted) + 1, closing(first(quoted)) - 1)>>
        ELSE IF named # {}
             THEN <<SubSeq(text, target(first(named)), target_end(target(first(named))) - 1)>>
        ELSE <<>>

\* NLPProcessor._extract_organization_type: the first type one of whose
\* words is found in the lower-cased text
extract_organization_type(text) ==
    LET t == str_lower(text)
        type_patterns == <<
            [org_type |-> "type", patterns |-> {<<"u7C7B", "u578B">>, <<"u79CD", "u7C7B">>, <<"t", "y", "p", "e">>, <<"c", "a", "t", "e", "g", "o", "r", "y">>}],
            [org_type |-> "date", patterns |-> {<<"u65E5", "u671F">>, <<"u65F6", "u95F4">>, <<"d", "a", "t", "e">>, <<"t", "i", "m", "e">>}],
            [org_type |-> "size", patterns |-> {<<"u5927", "u5C0F">>, <<"u5C3A", "u5BF8">>, <<"s", "i", "z", "e">>}],
            [org_type |-> "extension", patterns |-> {<<"u6269", "u5C55", "u540D">>, <<"u540E", "u7F00">>, <<"e", "x", "t", "e", "n", "s", "i", "o", "n">>, <<"s", "u", "f", "f", "i", "x">>}],
            [org_type |-> "name", patterns |-> {<<"u540D", "u79F0">>, <<"u6587", "u4EF6", "u540D">>, <<"n", "a", "m", "e">>, <<"f", "i", "l", "e", "n", "a", "m", "e">>}] >>
        found == {k \in 1..Len(type_patterns) :
                    \E pattern \in type_patterns[k].patterns : str_contains(t, pattern)}
    IN  IF found = {} THEN <<>>
        ELSE <<type_patterns[CHOOSE k \in found : \A j \in found : k <= j].org_type>>

\* NLPProcessor.generate_command_suggestions: the templates of every command
\* (搜索, 整理, 删除, 压缩) that is found in the lower-cased text or one of whose
\* characters is, else the five general suggestions; the first five of them.
\* A suggestion is written by its command (0 for the general ones) and its
\* place among the templates of the command.
generate_command_suggestions(partial_text) ==
    LET t == str_lower(partial_text)
        command_templates == <<
            [command |-> <<"u641C", "u7D22">>, templates |-> 4],
            [command |-> <<"u6574", "u7406">>, templates |-> 4],
            [command |-> <<"u5220", "u9664">>, templates |-> 4],
            [command |-> <<"u538B", "u7F29">>, templates |-> 3] >>
        matched(k) ==
            \/ str_contains(t, command_templates[k].command)
            \/ \E i \in 1..Len(command_templates[k].command) :
                  str_contains(t, <<command_templates[k].command[i]>>)
        templates(k) ==
            IF matched(k)
            THEN [i \in 1..command_templates[k].templates |-> [command |-> k, template |-> i]]
            ELSE <<>>
        RECURSIVE extended(_)
        extended(k) == IF k = 0 THEN <<>> ELSE extended(k - 1) \o templates(k)
        general == [i \in 1..5 |-> [command |-> 0, template |-> i]]
        suggestions == IF extended(Len(command_templates)) = <<>> THEN general
                       ELSE extended(Len(command_templates))
    IN  SubSeq(suggestions, 1, IF Len(suggestions) < 5 THEN Len(suggestions) ELSE 5)

\* NLPProcessor.process_natural_language: the intent of the stripped text
\* and the entities extracted from it.  The extractors of time_range and
\* number are left out: each extractor runs on its own, and no entity of
\* theirs is read by the validation.
process_natural_language(text) ==
    LET optional(value) == IF DOMAIN value = {} THEN <<>> ELSE <<value>>
        intent_of(t, intent, extracted) ==
            [name |-> intent.name,
             confidence |-> intent.confidence,
             entities |-> [e \in {e \in DOMAIN extracted : extracted[e] # <<>>} |-> extracted[e][1]],
             original_text |-> t]
        processed(t) ==
            intent_of(t, identify_intent(t),
                      [file_type |-> extract_file_type(t),
                       size_constraint |-> optional(extract_size_constraint(t)),
                       path |-> extract_path(t),
                       keywords |-> extract_keywords(t),
                       operation_target |-> extract_operation_target(t),
                       organization_type |-> extract_organization_type(t)])
    IN  processed(str_strip(text))

\* a validation that takes only a classified text for a valid command
initial_validation_of_known(intent) ==
    [valid |-> intent.name # "unknown",
     confidence |-> intent.confidence,
     warnings |-> <<>>,
     suggestions |-> <<>>]

\* validation = {"valid": True, "confidence": intent.confidence,
\*               "warnings": [], "suggestions": []}
initial_validation(intent) ==
    [valid |-> TRUE,
     confidence |-> intent.confidence,
     warnings |-> <<>>,
     suggestions |-> <<>>]

\* a threshold of 0.1 in the place of 0.3
below_tenth(confidence) == 10 * confidence.num < confidence.den

\* intent.confidence < 0.3
low_confidence(confidence) == 10 * confidence.num < 3 * confidence.den

\* a safety test that forgets the intent
anything_needs_target(intent) ==
    ~(/\ "operation_target" \in DOMAIN intent.entities
      /\ intent.entities["operation_target"] # <<>>)

\* intent.name == "delete" and not intent.entities.get("operation_target")
delete_needs_target(intent) ==
    /\ intent.name = "delete"
    /\ ~(/\ "operation_target" \in DOMAIN intent.entities
         /\ intent.entities["operation_target"] # <<>>)

\* NLPProcessor.validate_command.  The warnings are written
\* <<"low_confidence">> for "命令意图不够明确", <<"missing", entities>> for
\* "缺少必要信息: ..." and <<"delete_needs_target">> for "删除操作需要明确指定目标".
validate_command(text) ==
    LET required_entities ==
            [search |-> <<"keywords", "file_type", "path">>,
             move |-> <<"operation_target", "path">>,
             copy |-> <<"operation_target", "path">>,
             delete |-> <<"operation_target">>,
             organize |-> <<"path", "organization_type">>]
        checked(intent, validation, low) ==
            LET is_missing(entity) == entity \notin DOMAIN intent.entities
                missing_entities ==
                    IF intent.name \in DOMAIN required_entities
                    THEN SelectSeq(required_entities[intent.name], is_missing)
                    ELSE <<>>
            IN  [validation EXCEPT
                    !.warnings =
                        (IF low THEN << <<"low_confidence">> >> ELSE <<>>)
                        \o (IF missing_entities # <<>>
                            THEN << <<"missing", missing_entities>> >> ELSE <<>>)
                        \o (IF delete_needs_target(intent)
                            THEN << <<"delete_needs_target">> >> ELSE <<>>),
                    !.suggestions = IF low THEN generate_command_suggestions(text) ELSE <<>>]
        validated(intent) ==
            checked(intent, initial_validation(intent), low_confidence(intent.confidence))
    IN  validated(process_natural_language(text))

----------------------------------------------------------------------------
(* The texts and the steps of the language processor *)

\* a text is made of at most this many phrases
MaxWords == 2

\* the phrases a text is made of, separated by blanks: trigger words of the
\* intents, alone and inside other words; sizes and comparison words; a file
\* name, a folder name, paths, a quoted and a named target; the empty phrase, which
\* leaves a blank at an end of the text
Phrases == {
    \* ''
    <<>>,
    \* 'find'
    <<"f", "i", "n", "d">>,
    \* 'show'
    <<"s", "h", "o", "w">>,
    \* 'move'
    <<"m", "o", "v", "e">>,
    \* 'remove'
    <<"r", "e", "m", "o", "v", "e">>,
    \* 'copy'
    <<"c", "o", "p", "y">>,
    \* 'delete'
    <<"d", "e", "l", "e", "t", "e">>,
    \* 'create'
    <<"c", "r", "e", "a", "t", "e">>,
    \* 'organize'
    <<"o", "r", "g", "a", "n", "i", "z", "e">>,
    \* 'archive'
    <<"a", "r", "c", "h", "i", "v", "e">>,
    \* 'zip'
    <<"z", "i", "p">>,
    \* 'unzip'
    <<"u", "n", "z", "i", "p">>,
    \* 'extract'
    <<"e", "x", "t", "r", "a", "c", "t">>,
    \* 'analyze'
    <<"a", "n", "a", "l", "y", "z", "e">>,
    \* 'rename'
    <<"r", "e", "n", "a", "m", "e">>,
    \* '删除'
    <<"u5220", "u9664">>,
    \* '搜索'
    <<"u641C", "u7D22">>,
    \* 'larger than'
    <<"l", "a", "r", "g", "e", "r", " ", "t", "h", "a", "n">>,
    \* 'Larger than'
    <<"L", "a", "r", "g", "e", "r", " ", "t", "h", "a", "n">>,
    \* 'less than'
    <<"l", "e", "s", "s", " ", "t", "h", "a", "n">>,
    \* '>'
    <<">">>,
    \* 'about'
    <<"a", "b", "o", "u", "t">>,
    \* '10MB'
    <<"1", "0", "M", "B">>,
    \* '0 bytes'
    <<"0", " ", "b", "y", "t", "e", "s">>,
    \* '1.5kb'
    <<"1", ".", "5", "k", "b">>,
    \* 'report.pdf'
    <<"r", "e", "p", "o", "r", "t", ".", "p", "d", "f">>,
    \* 'desktop'
    <<"d", "e", "s", "k", "t", "o", "p">>,
    \* '/tmp'
    <<"/", "t", "m", "p">>,
    \* 'the'
    <<"t", "h", "e">>,
    \* "'x.txt'"
    <<"'", "x", ".", "t", "x", "t", "'">>,
    \* '<'
    <<"<">>,
    \* '大于'
    <<"u5927", "u4E8E">>,
    \* 'called'
    <<"c", "a", "l", "l", "e", "d">>,
    \* 'batch'
    <<"b", "a", "t", "c", "h">>,
    \* 'c:\\tmp'
    <<"c", ":", "\\", "t", "m", "p">>,
    \* 'by type'
    <<"b", "y", " ", "t", "y", "p", "e">> }

\* the texts: at most MaxWords phrases joined by blanks
Texts ==
    LET RECURSIVE joined(_)
        joined(phrases) ==
            IF phrases = <<>> THEN <<>>
            ELSE IF Len(phrases) = 1 THEN phrases[1]
            ELSE phrases[1] \o <<" ">> \o joined(Tail(phrases))
    IN  {joined(phrases) : phrases \in UNION {[1..n -> Phrases] : n \in 0..MaxWords}}

\* the text handed to the processor; each behaviour is one call on it
NlpInit ==
    /\ posix = TRUE
    /\ fs = <<>>
    /\ operation_history = <<>>
    /\ analysis_cache = <<>>
    /\ call \in {[op |-> "text", arg |-> text, result |-> <<>>] : text \in Texts}

NlpReturns(op, result) ==
    /\ call' = [op |-> op, arg |-> call.arg, result |-> result]
    /\ UNCHANGED <<posix, fs, operation_history, analysis_cache>>

IdentifyIntent ==
    /\ call.op = "text"
    /\ NlpReturns("identify_intent", identify_intent(call.arg))

ExtractSizeConstraint ==
    /\ call.op = "text"
    /\ NlpReturns("extract_size_constraint", extract_size_constraint(call.arg))

ValidateCommand ==
    /\ call.op = "text"
    /\ NlpReturns("validate_command", validate_command(call.arg))

NlpNext ==
    \/ IdentifyIntent
    \/ ExtractSizeConstraint
    \/ ValidateCommand

NlpSpec == NlpInit /\ [][NlpNext]_vars

----------------------------------------------------------------------------
(* Claims C16 to C18: the intent classifier *)

Classified == call.op = "identify_intent"

\* the text holds a trigger pattern of the k-th intent
Triggers(text, k) == matches_of(text, k) > 0

\* the text holds trigger patterns of the k-th intent and of no other
TriggersOnly(text, k) ==
    /\ Triggers(text, k)
    /\ \A j \in 1..Len(intent_patterns) : j # k => ~Triggers(text, j)

\* matches^2 / total_patterns
MatchesSquaredOverTotal(text, k) ==
    Fraction(matches_of(text, k) * matches_of(text, k), Len(intent_patterns[k].patterns))

\* C16: for every text and every intent with at least one matching pattern,
\* the score of the intent is matches^2 / total_patterns, and the returned
\* confidence is the best such score clamped to at most 1.0.
C16_ScoreIsMatchesSquaredOverTotal ==
    Classified =>
        /\ \A k \in 1..Len(intent_patterns) :
              Triggers(call.arg, k) =>
                  frac_equal(intent_score(call.arg, k), MatchesSquaredOverTotal(call.arg, k))
        /\ \A k \in 1..Len(intent_patterns) :
              (/\ Triggers(call.arg, k)
               /\ \A j \in 1..Len(intent_patterns) :
                     Triggers(call.arg, j) =>
                         ~frac_less(MatchesSquaredOverTotal(call.arg, k),
                                    MatchesSquaredOverTotal(call.arg, j)))
              => frac_equal(call.result.confidence,
                            clamped(MatchesSquaredOverTotal(call.arg, k)))

\* C17: a text in which no trigger pattern of any intent matches (the empty
\* text included) is classified 'unknown' with confidence 0.0, and 'unknown'
\* is the result in that case only.
C17_UnknownIffNothingMatches ==
    Classified =>
        /\ (\A k \in 1..Len(intent_patterns) : ~Triggers(call.arg, k))
              <=> call.result.name = "unknown"
        /\ call.result.name = "unknown" => call.result.confidence = Fraction(0, 1)

C17_Witness ==
    /\ Classified
    /\ call.arg = <<>>
    /\ call.result.name = "unknown"

\* C18: a text that holds a trigger phrase of one intent and none of any
\* other intent is classified to that intent with a confidence above 0.
C18_SoleTriggerDecidesIntent ==
    Classified =>
        \A k \in 1..Len(intent_patterns) :
            TriggersOnly(call.arg, k) =>
                /\ call.result.name = intent_patterns[k].intent
                /\ call.result.confidence.num > 0

\* a text of the last intent is classified, and every intent has such a text
C18_Witness ==
    /\ Classified
    /\ TriggersOnly(call.arg, Len(intent_patterns))
    /\ call.result.name = intent_patterns[Len(intent_patterns)].intent
    /\ \A k \in 1..Len(intent_patterns) : \E text \in Phrases : TriggersOnly(text, k)

----------------------------------------------------------------------------
(* Claim C19: size constraints *)

SizeExtracted == call.op = "extract_size_constraint"

\* a comparison word of the set stands in the text, in whatever case
Compares(text, comparison_words) ==
    \E word \in comparison_words : str_contains(str_lower(text), word)

\* C19: on a text with a parsable size of value bytes the result is only
\* min = value when a more-than word or '>' is present, only max = value when
\* a less-than word or '<' is present, and otherwise min = 0.9 * value and
\* max = 1.1 * value truncated, so that min <= value <= max.
C19_SizeConstraintFollowsComparisonWord ==
    (SizeExtracted /\ parse_size_string(call.arg) # <<>>) =>
        LET value == parse_size_string(call.arg)[1]
        IN  IF Compares(call.arg, more_words)
            THEN DOMAIN call.result = {"min"} /\ call.result["min"] = value
            ELSE IF Compares(call.arg, less_words)
            THEN DOMAIN call.result = {"max"} /\ call.result["max"] = value
            ELSE /\ DOMAIN call.result = {"min", "max"}
                 /\ call.result["min"] = (9 * value) \div 10
                 /\ call.result["max"] = (11 * value) \div 10
                 /\ call.result["min"] <= value
                 /\ value <= call.result["max"]

----------------------------------------------------------------------------
(* Claim C20: the entities a search requires *)

Validated == call.op = "validate_command"

\* the validation warns of missing information
MissingWarned ==
    \E i \in 1..Len(call.result.warnings) : call.result.warnings[i][1] = "missing"

\* C20: for a text classified 'search' the validation warns of missing
\* information only when none of keywords, file_type and path was extracted,
\* and not when at least one of them was.
C20_SearchWarnsOnlyWhenNoEntity ==
    (Validated /\ process_natural_language(call.arg).name = "search") =>
        (MissingWarned <=>
            {"keywords", "file_type", "path"}
                \cap DOMAIN process_natural_language(call.arg).entities = {})

----------------------------------------------------------------------------
(* Claims C21, C22, C24 and C30: validation and ties *)

\* the warning of the given kind is among the warnings returned
Warned(kind) ==
    \E i \in 1..Len(call.result.warnings) : call.result.warnings[i][1] = kind

\* C21: the validation gives the explicit-target safety warning when the
\* intent is 'delete' and no operation_target was extracted, and never when
\* the intent is another one or a target was extracted.
C21_DeleteWithoutTargetIsWarned ==
    Validated =>
        (Warned("delete_needs_target") <=>
            /\ process_natural_language(call.arg).name = "delete"
            /\ "operation_target" \notin DOMAIN process_natural_language(call.arg).entities)

C21_Witness ==
    /\ Validated
    /\ Warned("delete_needs_target")
    /\ process_natural_language(call.arg).name = "delete"

\* a delete command with a target gets no safety warning
C21_WitnessTargetGiven ==
    /\ Validated
    /\ ~Warned("delete_needs_target")
    /\ process_natural_language(call.arg).name = "delete"
    /\ "operation_target" \in DOMAIN process_natural_language(call.arg).entities

\* C22: the low-confidence warning and the suggestions are given exactly
\* when the parsed confidence is below 0.3; the suggestions are then between
\* one and five, and there is none when the confidence is 0.3 or more.
C22_SuggestionsIffLowConfidence ==
    Validated =>
        /\ Warned("low_confidence")
              <=> 10 * process_natural_language(call.arg).confidence.num
                      < 3 * process_natural_language(call.arg).confidence.den
        /\ Warned("low_confidence")
              => Len(call.result.suggestions) >= 1 /\ Len(call.result.suggestions) <= 5
        /\ ~Warned("low_confidence") => call.result.suggestions = <<>>

C22_Witness ==
    /\ Validated
    /\ Warned("low_confidence")
    /\ process_natural_language(call.arg).name # "unknown"
    /\ Len(call.result.suggestions) = 5

\* a command of confidence 0.3 or more gets no suggestion
C22_WitnessConfident ==
    /\ Validated
    /\ ~Warned("low_confidence")
    /\ call.result.suggestions = <<>>

\* the intents that reach the top score for the text
TopIntents(text) ==
    {k \in 1..Len(intent_patterns) :
        /\ Triggers(text, k)
        /\ \A j \in 1..Len(intent_patterns) :
              Triggers(text, j) => ~frac_less(intent_score(text, k), intent_score(text, j))}

\* C24: when several intents reach the same top score the classifier
\* returns the one that comes first in the declared order of the table
\* (search, move, copy, delete, create, organize, compress, extract,
\* analyze, rename), so the class of a text is determined by the text.
C24_TieGoesToFirstDeclaredIntent ==
    /\ [k \in 1..Len(intent_patterns) |-> intent_patterns[k].intent]
          = <<"search", "move", "copy", "delete", "create", "organize",
              "compress", "extract", "analyze", "rename">>
    /\ (Classified /\ TopIntents(call.arg) # {}) =>
          \E k \in TopIntents(call.arg) :
              /\ \A j \in TopIntents(call.arg) : k <= j
              /\ call.result.name = intent_patterns[k].intent
              /\ call.result = identify_intent(call.arg)

C24_Witness ==
    /\ Classified
    /\ Cardinality(TopIntents(call.arg)) >= 2
    /\ call.result.name = "move"

\* C30: the validation returns valid = true for every text, whatever it
\* warns of, and reports the confidence of parsing the same text.
C30_AlwaysValidWithParsedConfidence ==
    Validated =>
        /\ call.result.valid = TRUE
        /\ call.result.confidence = process_natural_language(call.arg).confidence

C30_Witness ==
    /\ Validated
    /\ call.result.valid
    /\ Warned("low_confidence")
    /\ Warned("missing")
    /\ Warned("delete_needs_target")

----------------------------------------------------------------------------
(* Claim C25: the buckets of the size strategy *)

SizeOrganized == Organized /\ call.result.success /\ call.arg = "size"

\* the three buckets: below 1 MiB, from 1 MiB to below 100 MiB, 100 MiB and more
Buckets(s) ==
    {b \in 1..3 : \/ b = 1 /\ s < 1024 * 1024
                  \/ b = 2 /\ 1024 * 1024 <= s /\ s < 100 * 1024 * 1024
                  \/ b = 3 /\ s >= 100 * 1024 * 1024}
BucketDir(dir, b) ==
    Child(dir, CASE b = 1 -> <<"xiaowenjian", "_", "xiaoyu1MB">>
                 [] b = 2 -> <<"zhongdengwenjian", "_", "1MBdao100MB">>
                 [] b = 3 -> <<"dawenjian", "_", "dayu100MB">>)

\* C25: a pass by size puts every top-level file in exactly one of three
\* buckets by its size s: s < 1 MiB, 1 MiB <= s < 100 MiB, s >= 100 MiB (so 0
\* is small, 1 MiB is medium and 100 MiB is large): a file goes nowhere but
\* to the directory of its bucket, and does go there when the pass reports
\* no error.
C25_SizeBuckets ==
    SizeOrganized =>
        \A p \in TopFilesOf(call.fs, call.path) :
            /\ Cardinality(Buckets(st_size(call.fs[p].content))) = 1
            /\ \A b \in Buckets(st_size(call.fs[p].content)) :
                  /\ \A q \in Holding(fs, call.fs[p].content) :
                        q = p \/ Parent(q) = BucketDir(call.path, b)
                  /\ call.result.errors = <<>> =>
                        /\ p \notin DOMAIN fs
                        /\ \E q \in Holding(fs, call.fs[p].content) :
                              Parent(q) = BucketDir(call.path, b)

\* files of 0 bytes, 1 MiB and 100 MiB went to the small, the medium and the
\* large bucket
C25_Witness ==
    /\ SizeOrganized
    /\ call.result.errors = <<>>
    /\ \E p, q, r \in TopFilesOf(call.fs, call.path) :
          /\ st_size(call.fs[p].content) = 0
          /\ st_size(call.fs[q].content) = 1024 * 1024
          /\ st_size(call.fs[r].content) = 100 * 1024 * 1024
          /\ Holding(fs, call.fs[p].content) = {Child(BucketDir(call.path, 1), BaseName(p))}
          /\ Holding(fs, call.fs[q].content) = {Child(BucketDir(call.path, 2), BaseName(q))}
          /\ Holding(fs, call.fs[r].content) = {Child(BucketDir(call.path, 3), BaseName(r))}

----------------------------------------------------------------------------
(* Claim C26: the status of the entries of an applied rename *)

\* C26: in apply mode an entry of renamed_files has status 'unchanged'
\* exactly when its new name is the original name, and the file is then as
\* it was; otherwise the status is 'renamed', the file is found under the
\* new name and is no longer the file under the original name.
C26_StatusTellsWhetherRenamed ==
    RenameApplied =>
        \A k \in 1..Len(call.result.renamed_files) :
            LET info == call.result.renamed_files[k]
                new_path == Child(call.path, info.new)
            IN  /\ info.status \in {"unchanged", "renamed"}
                /\ info.status = "unchanged" <=> info.new = info.original
                /\ info.status = "unchanged" =>
                      info.path \in DOMAIN fs /\ fs[info.path] = call.fs[info.path]
                /\ info.status = "renamed" =>
                      /\ new_path \in DOMAIN fs
                      /\ fs[new_path] = call.fs[info.path]
                      /\ info.path \in DOMAIN fs => fs[info.path] # call.fs[info.path]

\* one call left a file under its own name, which the pattern gave it, and
\* renamed another
C26_Witness ==
    /\ RenameApplied
    /\ \E j, k \in 1..Len(call.result.renamed_files) :
          /\ call.result.renamed_files[j].status = "unchanged"
          /\ Wanted(j) = call.result.renamed_files[j].original
          /\ call.result.renamed_files[k].status = "renamed"
          /\ Child(call.path, call.result.renamed_files[k].original) \notin DOMAIN fs

----------------------------------------------------------------------------
(* Claim C27: organizing twice *)

\* the call is a successful smart_organize_directory that follows at once a
\* successful one of the same directory and strategy that reported no error
OrganizedAgain ==
    /\ Organized
    /\ call.result.success
    /\ Len(call.history) >= 1
    /\ LET first == call.history[Len(call.history)]
       IN  /\ first.operation = "smart_organize"
           /\ first.path = call.path
           /\ first.type = call.arg
           /\ first.result.success
           /\ first.result.errors = <<>>

\* C27: a smart_organize_directory that repeats at once, with the same
\* strategy, one that succeeded without errors moves no file and leaves the
\* filesystem as it was, and still appends its own record to the history.
C27_OrganizingTwiceMovesNothing ==
    OrganizedAgain =>
        /\ call.result.organized_files = 0
        /\ call.result.errors = <<>>
        /\ fs = call.fs
        /\ Len(operation_history) = Len(call.history) + 1
        /\ operation_history[Len(operation_history)].operation = "smart_organize"
        /\ operation_history[Len(operation_history)].result = call.result
        /\ SubSeq(operation_history, 1, Len(call.history)) = call.history

\* the first call moved files, and the second found nothing to move
C27_Witness ==
    /\ OrganizedAgain
    /\ call.history[Len(call.history)].result.organized_files >= 2
    /\ call.result.organized_files = 0
    /\ fs = call.fs
    /\ Len(operation_history) = 2

\* the first call, by type, left an uncategorised file at the top level and
\* the second left it there again
C27_WitnessSkippedTwice ==
    /\ OrganizedAgain
    /\ call.arg = "type"
    /\ call.history[Len(call.history)].result.organized_files >= 1
    /\ TopFilesOf(fs, call.path) # {}

----------------------------------------------------------------------------
(* Claim C28: what a cleanup leaves *)

\* cleanup_empty_directories returned success with no error listed
CleanedWithoutError == Cleaned /\ call.result.success /\ call.result.errors = <<>>

\* C28: after a cleanup without error no directory below the root is empty,
\* the root is still there, every regular file is where and what it was, and
\* removed_directories lists the directories deleted, each once, a directory
\* before the directories it was in.
C28_NoEmptyDirectoryRemains ==
    CleanedWithoutError =>
        LET removed_directories == call.result.removed_directories
        IN  /\ \A d \in dirs_below(fs, call.path) : iterdir(fs, d) # {}
            /\ is_dir(fs, call.path)
            /\ DOMAIN fs \subseteq DOMAIN call.fs
            /\ \A p \in DOMAIN fs : fs[p] = call.fs[p]
            /\ \A p \in DOMAIN call.fs : call.fs[p].kind = "file" => p \in DOMAIN fs
            /\ {removed_directories[k] : k \in 1..Len(removed_directories)}
                  = DOMAIN call.fs \ DOMAIN fs
            /\ \A i, j \in 1..Len(removed_directories) :
                  /\ removed_directories[i] = removed_directories[j] => i = j
                  /\ IsUnder(removed_directories[i], removed_directories[j]) => i < j

\* a directory that held only an empty directory went after it, and a
\* directory that holds a file stayed
C28_Witness ==
    /\ CleanedWithoutError
    /\ \E i, j \in 1..Len(call.result.removed_directories) :
          /\ i < j
          /\ Parent(call.result.removed_directories[i]) = call.result.removed_directories[j]
    /\ \E d \in dirs_below(fs, call.path) : TopFilesOf(fs, d) # {}

----------------------------------------------------------------------------
(* Claim C29: undo looks at the last entry only *)

\* the undo found, as the last entry of the history, the record of a
\* smart_organize or of a cleanup_empty_directories
UndoneBehindOther ==
    /\ Undone
    /\ Len(call.history) >= 1
    /\ call.history[Len(call.history)].operation \in {"smart_organize", "cleanup_empty_directories"}

\* C29: undo_last_operation removes nothing but the last entry of the
\* history; when that entry records a smart_organize or a cleanup, the undo
\* fails and leaves the history and the filesystem as they were, whatever
\* batch_rename entries come before it, and however often it is called.
C29_UndoStopsAtLastEntry ==
    /\ Undone =>
          \/ operation_history = call.history
          \/ /\ Len(call.history) >= 1
             /\ operation_history = SubSeq(call.history, 1, Len(call.history) - 1)
             /\ call.history[Len(call.history)].operation = "batch_rename"
    /\ UndoneBehindOther =>
          /\ ~call.result.success
          /\ operation_history = call.history
          /\ fs = call.fs

\* an applied rename that renamed a file is recorded before the last entry,
\* the file is still under its new name, and the undo left it there
C29_Witness ==
    /\ UndoneBehindOther
    /\ Len(operation_history) = 2
    /\ operation_history[1].operation = "batch_rename"
    /\ \E k \in 1..Len(operation_history[1].result.renamed_files) :
          LET file_info == operation_history[1].result.renamed_files[k]
          IN  /\ file_info.status = "renamed"
              /\ is_file(fs, Child(Parent(file_info.path), file_info.new))
              /\ ~exists(fs, file_info.path)

----------------------------------------------------------------------------
(* Shortcuts: AdvancedFileOperations.create_file_shortcuts.  The call      *)
(* records nothing in the history.  On POSIX a shortcut is a symbolic      *)
(* link; on Windows it is a hard link for a file and, for a directory, a   *)
(* text file holding the directory's path.                                 *)

\* a symbolic link to target
Link(target) == [kind |-> "link", target |-> target]

\* "源文件不存在: ", "不安全的路径: ", "创建快捷方式失败 "
ErrSourceMissing == "yuanwenjian bucunzai: "
ErrUnsafeSource == "bu anquan de lujing: "
ErrShortcutFailed == "chuangjian kuaijiefangshi shibai "

\* f"{stem}_shortcut_{counter}{suffix}"
shortcut_numbered(original, counter) ==
    stem(original) \o <<"_", "shortcut", "_", ToString(counter)>> \o suffix(original)

\* "while shortcut_path.exists(): shortcut_path = shortcut_dir / f'...'; counter += 1"
RECURSIVE free_shortcut(_, _, _, _, _)
free_shortcut(f, shortcut_dir, original, counter, shortcut_path) ==
    IF exists(f, shortcut_path)
    THEN free_shortcut(f, shortcut_dir, original, counter + 1,
                       Child(shortcut_dir, shortcut_numbered(original, counter)))
    ELSE shortcut_path

\* f"{source_path.name}_路径.txt"
path_note(name) == name \o <<"_", "lujing", ".", "txt">>

\* shortcut_dir.mkdir(parents=True, exist_ok=True): the directory and the
\* ancestors it lacks
RECURSIVE made_dirs(_, _)
made_dirs(f, dir) ==
    IF Len(dir) = 0 \/ exists(f, dir) THEN f
    ELSE made_dir(made_dirs(f, Parent(dir)), dir)

\* the body of the try of one source: the free name, then the link.  Under
\* a shortcut_dir that is a file every way of making the shortcut raises,
\* and so does write_text on a path that is a directory.
\* st = [fs, created_shortcuts, errors]
shortcut_made(st, shortcut_dir, source_path) ==
    LET shortcut_path == free_shortcut(st.fs, shortcut_dir, BaseName(source_path), 1,
                                       Child(shortcut_dir, BaseName(source_path)))
        note_path == Child(shortcut_dir, path_note(BaseName(source_path)))
        failed == [st EXCEPT !.errors = Append(@, <<ErrShortcutFailed, source_path>>)]
        created(path, entry) ==
            [st EXCEPT !.fs = (path :> entry) @@ @,
                       !.created_shortcuts = Append(@, [source |-> source_path, shortcut |-> path])]
    IN  IF ~is_dir(st.fs, shortcut_dir) THEN failed
        ELSE IF posix THEN created(shortcut_path, Link(source_path))
        ELSE IF is_file(st.fs, source_path) THEN created(shortcut_path, st.fs[source_path])
        ELSE IF is_dir(st.fs, note_path) THEN failed
        ELSE created(note_path, File(source_path))

\* "for source_file in source_files"
RECURSIVE shortcuts_made(_, _, _, _)
shortcuts_made(st, shortcut_dir, source_files, i) ==
    IF i > Len(source_files) THEN st
    ELSE LET source_path == source_files[i]
         IN  IF ~exists(st.fs, source_path)
             THEN shortcuts_made([st EXCEPT !.errors = Append(@, <<ErrSourceMissing, source_path>>)],
                                 shortcut_dir, source_files, i + 1)
             ELSE IF ~is_safe_path(source_path)
             THEN shortcuts_made([st EXCEPT !.errors = Append(@, <<ErrUnsafeSource, source_path>>)],
                                 shortcut_dir, source_files, i + 1)
             ELSE shortcuts_made(shortcut_made(st, shortcut_dir, source_path),
                                 shortcut_dir, source_files, i + 1)

\* AdvancedFileOperations.create_file_shortcuts
create_file_shortcuts(f, hist, source_files, shortcut_directory) ==
    LET st == shortcuts_made([fs |-> made_dirs(f, shortcut_directory),
                              created_shortcuts |-> <<>>, errors |-> <<>>],
                             shortcut_directory, source_files, 1)
    IN  [fs |-> st.fs,
         history |-> hist,
         result |-> [success |-> TRUE,
                     created_shortcuts |-> st.created_shortcuts,
                     errors |-> st.errors]]

\* at most this many sources are given to one call
MaxSources == 2

\* source_files: a file and a directory of the working directory, a file of
\* the protected directory and a path that does not exist
Sources == {Child(WorkDir, a_txt), Child(WorkDir, <<"old">>), Child(ProtectedDir, a_txt), MissingDir}
SourceLists == UNION {[1..n -> Sources] : n \in 1..MaxSources}

\* shortcut_directory: the working directory, a directory to make below a
\* directory to make, and a path that is a file
ShortcutDirectories ==
    {WorkDir, Child(Child(WorkDir, <<"new">>), <<"links">>), FilePath}

CreateFileShortcuts ==
    /\ call = NoCall
    /\ \E source_files \in SourceLists : \E shortcut_directory \in ShortcutDirectories :
          Returns("create_file_shortcuts", shortcut_directory, source_files, FALSE,
                  create_file_shortcuts(fs, operation_history, source_files, shortcut_directory))

\* the first call of an instance is an organize pass or a rename
OrganizeFirst == call = NoCall /\ SmartOrganizeDirectory
RenameFirst == call = NoCall /\ BatchRenameFiles

\* one call on a new instance: the three operations that resolve collisions
ShortcutNext ==
    \/ OrganizeFirst
    \/ RenameFirst
    \/ CreateFileShortcuts

ShortcutSpec == Init /\ [][ShortcutNext]_vars

----------------------------------------------------------------------------
(* Claim C23: one scheme for the three collision loops *)

ShortcutsCreated == call.op = "create_file_shortcuts"

\* the names of the entries of dir
NamesIn(f, dir) == {BaseName(p) : p \in iterdir(f, dir)}

\* the name the scheme gives where the names in taken exist: N when it is
\* free, else N_k for the smallest k >= 1 with N_k free
Resolved(taken, N) ==
    IF N \notin taken THEN N
    ELSE LET k == CHOOSE k \in 1..(Cardinality(taken) + 1) :
                      /\ numbered(N, k) \notin taken
                      /\ \A j \in 1..(k - 1) : numbered(N, j) \in taken
         IN  numbered(N, k)

\* every file an organize pass moved lies in a group directory under its own
\* name N, or under N_k next to N and N_1 .. N_(k-1)
OrganizeScheme ==
    (Organized /\ call.result.success) =>
        \A p \in TopFilesOf(call.fs, call.path) :
            (~exists(fs, p)) =>
                \E q \in Holding(fs, call.fs[p].content) :
                    LET N == BaseName(p)
                        dir == Parent(q)
                    IN  /\ IsChildOf(dir, call.path)
                        /\ \/ BaseName(q) = N
                           \/ \E k \in 1..Cardinality(iterdir(fs, dir)) :
                                 /\ BaseName(q) = numbered(N, k)
                                 /\ exists(fs, Child(dir, N))
                                 /\ \A j \in 1..(k - 1) : exists(fs, Child(dir, numbered(N, j)))

\* the names in the directory when the k-th entry of renamed_files was
\* resolved, the file's own name left out
TakenAtRename(k) ==
    LET renamed_files == call.result.renamed_files
        before == {j \in 1..(k - 1) : renamed_files[j].status = "renamed"}
    IN  ((NamesIn(call.fs, call.path) \ {renamed_files[j].original : j \in before})
            \cup {renamed_files[j].new : j \in before})
        \ {renamed_files[k].original}

\* every entry of a rename has the name the scheme gives its wanted name
RenameScheme ==
    (Renamed /\ call.result.success) =>
        \A k \in 1..Len(call.result.renamed_files) :
            call.result.renamed_files[k].new = Resolved(TakenAtRename(k), Wanted(k))

\* the names in the shortcut directory when the k-th shortcut was made
TakenAtShortcut(k) ==
    NamesIn(call.fs, call.path)
        \cup {BaseName(call.result.created_shortcuts[j].shortcut) : j \in 1..(k - 1)}

\* every shortcut has the name the scheme gives its source's name
ShortcutScheme ==
    ShortcutsCreated =>
        \A k \in 1..Len(call.result.created_shortcuts) :
            LET created == call.result.created_shortcuts[k]
            IN  /\ Parent(created.shortcut) = call.path
                /\ BaseName(created.shortcut) = Resolved(TakenAtShortcut(k), BaseName(created.source))

\* C23 as stated: organize, batch rename and shortcut creation all give a
\* name whose destination stem.ext exists the name stem_k.ext for the
\* smallest k >= 1 for which stem_k.ext does not exist there.
C23_OneSchemeForAllThree ==
    /\ OrganizeScheme
    /\ RenameScheme
    /\ ShortcutScheme

\* C23, the two loops that follow the scheme: an organize pass and a batch
\* rename give the name stem_k.ext for the smallest free k.
C23_OrganizeAndRenameFollowTheScheme ==
    /\ OrganizeScheme
    /\ RenameScheme

\* C23, what the third loop does: a shortcut whose name is taken is named
\* stem_shortcut_k.ext for the smallest k >= 1 that is free, and on Windows
\* the shortcut of a directory is named name_路径.txt whatever exists.
C23_ShortcutsUseTheirOwnSuffix ==
    ShortcutsCreated =>
        \A k \in 1..Len(call.result.created_shortcuts) :
            LET created == call.result.created_shortcuts[k]
                N == BaseName(created.source)
                U == BaseName(created.shortcut)
            IN  \/ U = N /\ N \notin TakenAtShortcut(k)
                \/ /\ N \in TakenAtShortcut(k)
                   /\ \E c \in 1..(Cardinality(TakenAtShortcut(k)) + 1) :
                         /\ U = shortcut_numbered(N, c)
                         /\ U \notin TakenAtShortcut(k)
                         /\ \A j \in 1..(c - 1) : shortcut_numbered(N, j) \in TakenAtShortcut(k)
                \/ ~posix /\ is_dir(call.fs, created.source) /\ U = path_note(N)

\* a shortcut of a.txt made where a.txt exists is named a_shortcut_1.txt,
\* while a_1.txt is free
C23_WitnessShortcutSuffix ==
    /\ ShortcutsCreated
    /\ \E k \in 1..Len(call.result.created_shortcuts) :
          LET created == call.result.created_shortcuts[k]
          IN  /\ BaseName(created.source) \in TakenAtShortcut(k)
              /\ BaseName(created.shortcut) = shortcut_numbered(BaseName(created.source), 1)
              /\ numbered(BaseName(created.source), 1) \notin NamesIn(fs, call.path)

\* an organize pass and a rename each gave a numbered name
C23_WitnessOrganizeNumbered ==
    /\ Organized
    /\ call.result.success
    /\ \E p \in TopFilesOf(call.fs, call.path) : \E q \in Holding(fs, call.fs[p].content) :
          BaseName(q) = numbered(BaseName(p), 1)
C23_WitnessRenameNumbered ==
    /\ Renamed
    /\ call.result.success
    /\ \E k \in 1..Len(call.result.renamed_files) :
          call.result.renamed_files[k].new = numbered(Wanted(k), 1)

====
